---------------------------- MODULE Spec2Model ----------------------------
(***************************************************************************)
(* Model of faf-cli's local project intelligence:                          *)
(*   - LocalProjectScanner.walkDirectory (src/engines/local-project-       *)
(*     scanner.ts), the recursive directory walk;                          *)
(*   - analyzeReadmeWithAI (src/engines/ai-readme-analyzer.ts), the        *)
(*     optional remote README analysis;                                    *)
(*   - generateFafFromProject (src/generators/faf-generator-               *)
(*     championship.ts): slot filling, type inference, type-aware scoring. *)
(*                                                                         *)
(* Strings that the code inspects character-wise (file names, framework    *)
(* names) are sequences of pieces, joined with \o when the code compares   *)
(* the whole string.  Scores are exact rationals (numerator, denominator); *)
(* the code computes them in IEEE doubles, whose error (a few ulps over at *)
(* most 20 additions) is far below the distance of any reachable value     *)
(* from a rounding boundary (at least 1/(2*86)).                           *)
(***************************************************************************)
EXTENDS Integers, Sequences, FiniteSets, TLC

VARIABLES
  \* ---- LocalProjectScanner.walkDirectory -------------------------------
  fsId,         \* which file-system fixture the walk runs on
  unreadable,   \* directories whose readdir fails (EACCES, ENOENT, ...)
  unstatable,   \* files whose stat fails
  stack,        \* call stack of walkDirectory: <<[dir, phase, idx]>>
  visited,      \* files handed to the per-file callback, in order
  readLog,      \* directories whose readdir succeeded, in order
  walkPc,       \* "idle" | "walking" | "done"
  \* ---- generateFafFromProject -------------------------------------------
  pc,                  \* position in generateFafFromProject
  options,             \* GenerateOptions
  scanResult,          \* LocalScanResult of scanner.scan()
  frameworkResult,     \* DetectionResult | null
  loaded,              \* manifests, FAB-FORMATS analysis, human context, tsconfig
  aiResult,            \* AIReadmeResult | null
  contextSlotsFilled,  \* slot name -> value ("" : not set)
  inferredType,        \* result of inferProjectType
  scoring,             \* locals of the type-aware scoring block
  fafData,             \* what is handed to generateFafContent
  thrown,              \* the error generateFafFromProject rejected with ("" : none)
  \* ---- analyzeReadmeWithAI ------------------------------------------------
  aiPc,         \* position in analyzeReadmeWithAI / callAnthropic / callOpenRouter
  aiEnv,        \* which API keys process.env holds
  aiModel,      \* index of the model of the current loop iteration
  aiRequests,   \* requests sent during the call, in order
  aiRet,        \* what analyzeReadmeWithAI resolved with
  aiOutcome,    \* how the enrichment ended ("" : not attempted or still running)
  aiClock,      \* seconds since analyzeReadmeWithAI was called
  \* ---- LocalProjectScanner.scanLanguages ----------------------------------
  langPc,        \* "idle" | "walking" | "done"
  walkedFiles,   \* the files walkDirectory hands to the callback, in order
  langIdx,       \* index of the next file handed to the callback
  languageBytes, \* language -> {bytes, files}, in insertion order
  totalFiles,    \* files counted so far
  totalBytes,    \* bytes counted so far
  counted,       \* indices of the files the callback counted
  languageScan,  \* what scanLanguages resolved with
  \* ---- LocalProjectScanner.parseReadme ------------------------------------
  readmePc,      \* position in parseReadme ("idle" : not called)
  readmeFile,    \* "missing" | "unreadable" | "ok"
  readmeContent, \* the characters of the README
  readmeResult,  \* the ReadmeContext parseReadme resolved with
  \* ---- LocalProjectScanner.scan: the quality score ------------------------
  qualityPc,      \* position in scan after the sub-scans ("idle" : not called)
  subScans,       \* what the sub-scans of scan resolved with
  qualityFactors, \* the qualityFactors object
  qualityScore,   \* result of calculateQualityScore
  qualityTier,    \* result of getScoreTier
  \* ---- LocalProjectScanner.scan: the sub-scans and their join -------------
  scanPc,          \* position in scan ("idle" : not called)
  projectTree,     \* the project tree under projectRoot
  listing,         \* the entries of the root in the order readdir lists them
  settled,         \* the sub-scans Promise.all has seen resolve, in order
  probeResults,    \* results of detectLicense, scanTopLevelStructure, detectCiCd
  localScanResult, \* the LocalScanResult scan resolved with
  \* ---- generateFafContent: the context quality block ----------------------
  yamlPc,          \* position in the formatting ("idle" : not called)
  slotTotals,      \* totalFilled and totalApplicable of the scoring block
  projectData,     \* the slot fields of the data handed to generateFafContent
  contextQuality   \* the slots_filled entry of context_quality

genVars == <<pc, options, scanResult, frameworkResult, loaded, aiResult,
             contextSlotsFilled, inferredType, scoring, fafData, thrown>>

aiVars == <<aiPc, aiEnv, aiModel, aiRequests, aiRet, aiOutcome, aiClock>>

walkVars == <<fsId, unreadable, unstatable, stack, visited, readLog, walkPc>>

langVars == <<langPc, walkedFiles, langIdx, languageBytes, totalFiles, totalBytes,
              counted, languageScan>>

readmeVars == <<readmePc, readmeFile, readmeContent, readmeResult>>

qualityVars == <<qualityPc, subScans, qualityFactors, qualityScore, qualityTier>>

joinVars == <<scanPc, projectTree, listing, settled, probeResults, localScanResult>>

scanVars == <<langVars, readmeVars, qualityVars, joinVars>>

yamlVars == <<yamlPc, slotTotals, projectData, contextQuality>>

vars == <<walkVars, genVars, aiVars, scanVars, yamlVars>>

-----------------------------------------------------------------------------
(* Bounds of the model *)

\* Number of nested directories of the deep fixture (depths 0 .. DeepLen-1).
DeepLen == 22

\* Depth at which readdir fails with ENAMETOOLONG (PATH_MAX): the operating
\* system's bound on the recursion, far above any fixture's depth.
MaxPathDepth == 30

\* The clock of an AI call stops counting here.
MaxClock == 32

\* Largest number of files a language scan is handed.
MaxFiles == 3

\* Largest number of sections of a README.
MaxSections == 2

\* The most slots a type can have applicable: the scored inventory.
MaxApplicable == 20

(* Limits the implementation plan configures for the walk (not in the code) *)
MAX_FILES == 50000
MAX_DEPTH == 20

(* The ceiling the implementation plan sets for one AI analysis, in seconds *)
(* (not in the code)                                                        *)
AI_TOTAL_TIMEOUT_SECONDS == 30

\* A string that is absent: undefined, null or the empty string (all falsy).
None == ""

\* An object that is absent: null or undefined.
Null == [null |-> TRUE]

-----------------------------------------------------------------------------
(* Helpers *)

Range(s) == { s[i] : i \in DOMAIN s }

NoDup(s) == \A i, j \in DOMAIN s : s[i] = s[j] => i = j

\* A name as the code sees it: the pieces joined by dots
\* (<<"app","min","js">> is "app.min.js", <<"","git">> is ".git").
RECURSIVE JoinDots(_)
JoinDots(parts) ==
  IF parts = <<>> THEN ""
  ELSE IF Len(parts) = 1 THEN parts[1]
  ELSE parts[1] \o "." \o JoinDots(Tail(parts))

\* String.prototype.startsWith('.')
StartsWithDot(parts) == Len(parts) > 1 /\ parts[1] = ""

-----------------------------------------------------------------------------
(* Static tables of the scanner *)

SKIP_DIRS ==
  { "node_modules", ".git", ".svn", ".hg", "dist", "build", "out",
    ".next", ".nuxt", "__pycache__", ".pytest_cache", ".mypy_cache",
    "venv", ".venv", "env", ".env", "vendor", "target", ".cargo",
    "coverage", ".idea", ".vscode", "tmp", "temp", "logs",
    ".cache", ".parcel-cache", ".turbo", ".output",
    "bower_components", "jspm_packages",
    "zig-cache", "zig-out" }

-----------------------------------------------------------------------------
(* File-system fixtures.  A node is a directory, a regular file or a       *)
(* symbolic link; node 0 is the project root.                              *)

Dir(name, entries)  == [name |-> name, kind |-> "dir", entries |-> entries, target |-> 0, size |-> 0]
File(name, size)    == [name |-> name, kind |-> "file", entries |-> <<>>, target |-> 0, size |-> size]
Link(name, target)  == [name |-> name, kind |-> "symlink", entries |-> <<>>, target |-> target, size |-> 0]

\* A chain of DeepLen nested directories with one source file at the bottom.
DeepTree ==
  [n \in 0..DeepLen |->
     IF n < DeepLen - 1 THEN Dir(<<"d">>, <<n + 1>>)
     ELSE IF n = DeepLen - 1 THEN Dir(<<"d">>, <<DeepLen>>)
     ELSE File(<<"leaf", "c">>, 10)]

\* A small project: sources, a skipped and a hidden directory, a directory
\* and a file that may be unreadable, and symbolic links to a file, to the
\* root and to the link's own parent directory.
MixedTree ==
  0  :> Dir(<<"proj">>, <<1, 2, 3, 4, 5, 6, 7, 8, 9>>) @@
  1  :> Dir(<<"src">>, <<10, 11, 12, 13>>) @@
  2  :> Dir(<<"node_modules">>, <<14>>) @@
  3  :> Dir(<<"", "config">>, <<15>>) @@
  4  :> Dir(<<"locked">>, <<16>>) @@
  5  :> File(<<"README", "md">>, 40) @@
  6  :> File(<<"broken", "rs">>, 30) @@
  7  :> File(<<"app", "min", "js">>, 90) @@
  8  :> Link(<<"loop">>, 0) @@
  9  :> Link(<<"latest", "txt">>, 5) @@
  10 :> File(<<"main", "cpp">>, 20) @@
  11 :> File(<<"util", "h">>, 50) @@
  12 :> Link(<<"back">>, 1) @@
  13 :> Dir(<<"lib">>, <<17>>) @@
  14 :> File(<<"x", "js">>, 70) @@
  15 :> File(<<"y", "ts">>, 60) @@
  16 :> File(<<"z", "py">>, 10) @@
  17 :> File(<<"helper", "go">>, 20)

\* Pruned directories below the top level: a skip-set name with a nested
\* directory, a hidden directory, and a name that differs from a skip-set
\* name only in case.
PrunedTree ==
  0 :> Dir(<<"proj">>, <<1>>) @@
  1 :> Dir(<<"pkg">>, <<2, 3, 4, 5>>) @@
  2 :> Dir(<<"target">>, <<6>>) @@
  3 :> Dir(<<"", "cache">>, <<7>>) @@
  4 :> Dir(<<"Build">>, <<8>>) @@
  5 :> File(<<"lib", "rs">>, 30) @@
  6 :> Dir(<<"debug">>, <<9>>) @@
  7 :> File(<<"b", "js">>, 20) @@
  8 :> File(<<"c", "go">>, 10) @@
  9 :> File(<<"a", "rs">>, 40)

Fixtures == { "deep", "mixed", "pruned" }

Fs(id) == IF id = "deep" THEN DeepTree ELSE IF id = "mixed" THEN MixedTree ELSE PrunedTree

\* Directories and files of the mixed fixture whose access may fail.
MayBeUnreadable == { 0, 4, 13 }
MayBeUnstatable == { 6, 10 }

-----------------------------------------------------------------------------
(* walkDirectory *)

\* The path a node stands for, symbolic links followed (what readdir and
\* stat do with a path).
RECURSIVE Resolve(_, _)
Resolve(fs, n) == IF fs[n].kind = "symlink" THEN Resolve(fs, fs[n].target) ELSE n

\* Dirent.isDirectory() / Dirent.isFile() of an entry read withFileTypes:
\* the entry's own type, a symbolic link being neither.
LinkFollowingIsDirectory(fs, e) == fs[Resolve(fs, e)].kind = "dir"
IsDirectory(fs, e) == fs[e].kind = "dir"

IsFile(fs, e) == fs[e].kind = "file"

\* The pruning test of the loop body.
NoPruning(name) == FALSE
SkipDirectory(name) == JoinDots(name) \in SKIP_DIRS \/ StartsWithDot(name)

\* fs.readdir(dirPath): fails on an unreadable directory and on a path
\* longer than the system allows.
ReaddirFails(depth, n) ==
  \/ Resolve(Fs(fsId), n) \in unreadable
  \/ Fs(fsId)[Resolve(Fs(fsId), n)].kind # "dir"
  \/ depth >= MaxPathDepth

StatNeverFails(n) == FALSE
StatFails(n) == Resolve(Fs(fsId), n) \in unstatable

Top == stack[Len(stack)]

Pop == SubSeq(stack, 1, Len(stack) - 1)

SetTop(f) == [stack EXCEPT ![Len(stack)] = f]

Frame(n) == [dir |-> n, phase |-> "enter", idx |-> 1]

\* scanLanguages calls walkDirectory(this.projectRoot, callback).
WalkStart ==
  /\ walkPc = "idle"
  /\ walkPc' = "walking"
  /\ stack' = <<Frame(0)>>
  /\ UNCHANGED <<fsId, unreadable, unstatable, visited, readLog>>
  /\ UNCHANGED <<genVars, aiVars, scanVars, yamlVars>>

\* try { entries = await fs.readdir(...) } catch { return }
WalkReaddir ==
  /\ walkPc = "walking"
  /\ stack # <<>>
  /\ Top.phase = "enter"
  /\ IF ReaddirFails(Len(stack) - 1, Top.dir)
       THEN /\ stack' = Pop
            /\ walkPc' = IF Len(stack) = 1 THEN "done" ELSE "walking"
            /\ UNCHANGED readLog
       ELSE /\ stack' = SetTop([Top EXCEPT !.phase = "loop"])
            /\ readLog' = Append(readLog, Top.dir)
            /\ UNCHANGED walkPc
  /\ UNCHANGED <<fsId, unreadable, unstatable, visited>>
  /\ UNCHANGED <<genVars, aiVars, scanVars, yamlVars>>

\* One iteration of `for (const entry of entries)`.
WalkEntry ==
  /\ walkPc = "walking"
  /\ stack # <<>>
  /\ Top.phase = "loop"
  /\ LET fs      == Fs(fsId)
         entries == fs[Resolve(fs, Top.dir)].entries
     IN  /\ Top.idx <= Len(entries)
         /\ LET e    == entries[Top.idx]
                next == SetTop([Top EXCEPT !.idx = @ + 1])
            IN  IF IsDirectory(fs, e)
                  THEN IF SkipDirectory(fs[e].name)
                         THEN stack' = next /\ UNCHANGED visited
                         ELSE stack' = Append(next, Frame(e)) /\ UNCHANGED visited
                ELSE IF IsFile(fs, e)
                  THEN /\ stack' = next
                       /\ visited' = IF StatFails(e) THEN visited ELSE Append(visited, e)
                ELSE stack' = next /\ UNCHANGED visited
  /\ UNCHANGED <<fsId, unreadable, unstatable, readLog, walkPc>>
  /\ UNCHANGED <<genVars, aiVars, scanVars, yamlVars>>

\* The loop is over: walkDirectory returns to its caller.
WalkReturn ==
  /\ walkPc = "walking"
  /\ stack # <<>>
  /\ Top.phase = "loop"
  /\ Top.idx > Len(Fs(fsId)[Resolve(Fs(fsId), Top.dir)].entries)
  /\ stack' = Pop
  /\ walkPc' = IF Len(stack) = 1 THEN "done" ELSE "walking"
  /\ UNCHANGED <<fsId, unreadable, unstatable, visited, readLog>>
  /\ UNCHANGED <<genVars, aiVars, scanVars, yamlVars>>

-----------------------------------------------------------------------------
(* Static tables of the generator *)

\* Object.keys(SLOT_CATEGORY_MAP), in insertion order.
AllSlots ==
  << "project_name", "project_goal", "main_language", "framework",
     "backend", "server", "api_type", "database",
     "hosting", "cicd", "build_tool", "package_manager", "test_framework", "linter",
     "who", "what", "why", "where", "when", "how" >>

SLOT_CATEGORY_MAP ==
  [slot \in Range(AllSlots) |->
     IF slot \in { "project_name", "project_goal", "main_language" } THEN "project"
     ELSE IF slot = "framework" THEN "frontend"
     ELSE IF slot \in { "backend", "server", "api_type", "database" } THEN "backend"
     ELSE IF slot \in { "hosting", "cicd", "build_tool", "package_manager",
                        "test_framework", "linter" } THEN "universal"
     ELSE "human"]

AllCategories == << "project", "frontend", "backend", "universal", "human" >>

PUH   == << "project", "universal", "human" >>
PBH   == << "project", "backend", "human" >>
PBUH  == << "project", "backend", "universal", "human" >>
PFUH  == << "project", "frontend", "universal", "human" >>
PFH   == << "project", "frontend", "human" >>
PH    == << "project", "human" >>

TYPE_APPLICABLE_CATEGORIES ==
  [t \in { "cli", "cli-tool", "cli-ts", "cli-js", "library", "npm-package",
           "pip-package", "crate", "typescript" } |-> PUH] @@
  [t \in { "data-science", "ml-model", "mcp-server", "python-app",
           "python-generic" } |-> PBH] @@
  [t \in { "backend-api", "node-api", "node-api-ts", "python-api", "go-api",
           "rust-api" } |-> PBUH] @@
  [t \in { "frontend", "react", "react-ts", "vue", "vue-ts", "svelte",
           "svelte-ts", "angular" } |-> PFUH] @@
  [t \in { "static-html", "mobile", "react-native", "flutter", "ios", "android",
           "desktop", "electron", "tauri" } |-> PFH] @@
  [t \in { "fullstack", "fullstack-ts", "nextjs", "django", "rails" } |-> AllCategories] @@
  [t \in { "terraform", "kubernetes", "docker", "infrastructure",
           "documentation", "cookbook" } |-> PH]

AI_TYPE_TO_FAF_TYPE ==
  "cli" :> "cli" @@ "library" :> "library" @@ "web-app" :> "frontend" @@
  "api" :> "backend-api" @@ "mobile-app" :> "mobile" @@ "desktop-app" :> "desktop" @@
  "framework" :> "library" @@ "tool" :> "cli" @@ "plugin" :> "library" @@
  "data-science" :> "data-science" @@ "devops" :> "infrastructure"

\* Both tables are plain object literals, read with table[key]: besides its own
\* keys such an object answers the names it inherits from Object.prototype,
\* each with a truthy value (a function, or the prototype itself).
ObjectPrototypeKeys ==
  { "constructor", "toString", "toLocaleString", "valueOf", "hasOwnProperty",
    "isPrototypeOf", "propertyIsEnumerable", "__proto__",
    "__defineGetter__", "__defineSetter__", "__lookupGetter__", "__lookupSetter__" }

\* Whether table[key] is truthy.
HasProperty(table, key) == key \in DOMAIN table \/ key \in ObjectPrototypeKeys

-----------------------------------------------------------------------------
(* inferProjectType *)

\* A framework name is a sequence of characters.
LowerChar(c) ==
  CASE c = "A" -> "a" [] c = "B" -> "b" [] c = "C" -> "c" [] c = "D" -> "d"
    [] c = "E" -> "e" [] c = "F" -> "f" [] c = "G" -> "g" [] c = "H" -> "h"
    [] c = "I" -> "i" [] c = "J" -> "j" [] c = "K" -> "k" [] c = "L" -> "l"
    [] c = "M" -> "m" [] c = "N" -> "n" [] c = "O" -> "o" [] c = "P" -> "p"
    [] c = "Q" -> "q" [] c = "R" -> "r" [] c = "S" -> "s" [] c = "T" -> "t"
    [] c = "U" -> "u" [] c = "V" -> "v" [] c = "W" -> "w" [] c = "X" -> "x"
    [] c = "Y" -> "y" [] c = "Z" -> "z" [] OTHER -> c

IsWhitespace(c) == c \in { " ", "\t", "\n" }

\* String.prototype.toLowerCase()
ToLowerCase(chars) == [i \in DOMAIN chars |-> LowerChar(chars[i])]

\* .replace(/\s+/g, '-'): every maximal run of whitespace becomes one hyphen.
RECURSIVE ReplaceWhitespaceRuns(_)
ReplaceWhitespaceRuns(chars) ==
  IF chars = <<>> THEN <<>>
  ELSE IF IsWhitespace(Head(chars))
    THEN IF Len(chars) > 1 /\ IsWhitespace(chars[2])
           THEN ReplaceWhitespaceRuns(Tail(chars))
           ELSE <<"-">> \o ReplaceWhitespaceRuns(Tail(chars))
  ELSE <<Head(chars)>> \o ReplaceWhitespaceRuns(Tail(chars))

\* The characters as one string.
RECURSIVE Str(_)
Str(chars) == IF chars = <<>> THEN "" ELSE Head(chars) \o Str(Tail(chars))

\* frameworkResult.framework.toLowerCase().replace(/\s+/g, '-')
NormalizeFramework(chars) == Str(ReplaceWhitespaceRuns(ToLowerCase(chars)))

SystemsLanguages == { "C", "C++", "Rust", "Go", "Zig" }

\* Priority 1: the AI hint through the alias table, else used directly.
AiType(aiProjectType) ==
  IF aiProjectType = None THEN None
  ELSE IF /\ aiProjectType \in DOMAIN AI_TYPE_TO_FAF_TYPE
          /\ HasProperty(TYPE_APPLICABLE_CATEGORIES, AI_TYPE_TO_FAF_TYPE[aiProjectType])
    THEN AI_TYPE_TO_FAF_TYPE[aiProjectType]
  ELSE IF HasProperty(TYPE_APPLICABLE_CATEGORIES, aiProjectType) THEN aiProjectType
  ELSE None

\* Priority 2: the framework detector's name, normalized.
FrameworkType(fwResult) ==
  IF fwResult = Null \/ fwResult.framework = <<>> THEN None
  ELSE LET fw == NormalizeFramework(fwResult.framework)
       IN  IF HasProperty(TYPE_APPLICABLE_CATEGORIES, fw) THEN fw ELSE None

\* Priority 3: a systems language is a library.
LanguageType(scan) ==
  IF scan.primaryLanguage \in SystemsLanguages THEN "library" ELSE None

\* Priority 4: the caller's type, if the table knows it.
OriginalType(originalType) ==
  IF originalType # None /\ HasProperty(TYPE_APPLICABLE_CATEGORIES, originalType)
    THEN originalType ELSE None

inferProjectType(scan, aiProjectType, fwResult, originalType) ==
  IF AiType(aiProjectType) # None THEN AiType(aiProjectType)
  ELSE IF FrameworkType(fwResult) # None THEN FrameworkType(fwResult)
  ELSE IF LanguageType(scan) # None THEN LanguageType(scan)
  ELSE IF OriginalType(originalType) # None THEN OriginalType(originalType)
  ELSE "fullstack"

-----------------------------------------------------------------------------
(* getApplicableSlots and the type-aware scoring block *)

\* The error of calling something that is not a function.
TypeError == "TypeError"

\* Array.prototype.includes
Includes(seq, x) == x \in Range(seq)

\* TYPE_APPLICABLE_CATEGORIES[projectType] || [all five]; for a name inherited
\* from Object.prototype the value is not an array and categories.includes is
\* not a function.
CategoriesNotAnArray(projectType) ==
  /\ projectType \notin DOMAIN TYPE_APPLICABLE_CATEGORIES
  /\ projectType \in ObjectPrototypeKeys

CategoriesOf(projectType) ==
  IF projectType \in DOMAIN TYPE_APPLICABLE_CATEGORIES
    THEN TYPE_APPLICABLE_CATEGORIES[projectType]
    ELSE AllCategories

SlotInventory == AllSlots

getApplicableSlots(projectType) ==
  SelectSeq(SlotInventory,
            LAMBDA slot : Includes(CategoriesOf(projectType), SLOT_CATEGORY_MAP[slot]))

technicalSlots ==
  << "project_name", "project_goal", "main_language", "framework",
     "backend", "server", "api_type", "database", "hosting",
     "cicd", "build_tool", "package_manager", "test_framework", "linter" >>

humanSlots == << "who", "what", "why", "where", "when", "how" >>

\* Points of one filled slot before scaling.
TechnicalPoints == 4
HumanPoints == 5

maxSlotPoints == 86

\* slotScale = applicableMaxRaw > 0 ? maxSlotPoints / applicableMaxRaw : 1,
\* as the fraction <<numerator, denominator>>.
NoScaling(applicableMaxRaw) == <<1, 1>>
SlotScale(applicableMaxRaw) ==
  IF applicableMaxRaw > 0 THEN <<maxSlotPoints, applicableMaxRaw>> ELSE <<1, 1>>

\* Math.round of the non-negative fraction num / den: halves go up.
Round(num, den) == (2 * num + den) \div (2 * den)

Min(a, b) == IF a <= b THEN a ELSE b

\* Math.min(Math.round(enhancedScore), 99)
CapAtHundred(num, den) == Min(Round(num, den), 100)
CapScore(num, den) == Min(Round(num, den), 99)

\* const naSlotCount = 20 - totalApplicable
NaOfTwentyOne(totalApplicable) == 21 - totalApplicable
NaSlotCount(totalApplicable) == 20 - totalApplicable

GradeBonus(grade) ==
  IF grade = "EXCEPTIONAL" THEN 20
  ELSE IF grade = "PROFESSIONAL" THEN 15
  ELSE IF grade = "GOOD" THEN 10
  ELSE IF grade = "BASIC" THEN 5
  ELSE 0

DepthBonus(intelligenceDepth) ==
  IF intelligenceDepth > 80 THEN 15
  ELSE IF intelligenceDepth > 60 THEN 10
  ELSE IF intelligenceDepth > 40 THEN 5
  ELSE 0

TypeScriptBonus(tsContext) ==
  IF tsContext = Null THEN 0
  ELSE IF tsContext.strictMode THEN 10
  ELSE 5

\* Lines 720-803: the locals of the scoring block for an inferred type, the
\* filled slots, the FAB-FORMATS quality metrics and the tsconfig analysis.
TypeAwareScoring(type, slots, qualityMetrics, tsContext) ==
  LET applicableSlots == getApplicableSlots(type)
      Applicable(slot) == Includes(applicableSlots, slot)
      Filled(slot)     == Includes(applicableSlots, slot) /\ slots[slot] # None
      applicableTechCount  == Len(SelectSeq(technicalSlots, Applicable))
      applicableHumanCount == Len(SelectSeq(humanSlots, Applicable))
      applicableMaxRaw == applicableTechCount * TechnicalPoints
                          + applicableHumanCount * HumanPoints
      slotScale        == SlotScale(applicableMaxRaw)
      technicalFilled  == Len(SelectSeq(technicalSlots, Filled))
      humanFilled      == Len(SelectSeq(humanSlots, Filled))
      \* enhancedScore after the two scoring passes, over slotScale[2]
      slotPoints == (technicalFilled * TechnicalPoints + humanFilled * HumanPoints)
                    * slotScale[1]
      bonus == GradeBonus(qualityMetrics.highestGrade)
               + DepthBonus(qualityMetrics.intelligenceDepth)
               + TypeScriptBonus(tsContext)
      totalApplicable == applicableTechCount + applicableHumanCount
  IN  [ applicableSlots      |-> applicableSlots,
        applicableTechCount  |-> applicableTechCount,
        applicableHumanCount |-> applicableHumanCount,
        applicableMaxRaw     |-> applicableMaxRaw,
        slotScale            |-> slotScale,
        technicalFilled      |-> technicalFilled,
        humanFilled          |-> humanFilled,
        bonus                |-> bonus,
        enhancedScore        |-> <<slotPoints + bonus * slotScale[2], slotScale[2]>>,
        totalApplicable      |-> totalApplicable,
        totalFilled          |-> technicalFilled + humanFilled,
        naSlotCount          |-> NaSlotCount(totalApplicable),
        fafScore             |-> CapScore(slotPoints + bonus * slotScale[2], slotScale[2]) ]

PercentOfInventory(totalFilled, totalApplicable) == Round(totalFilled * 100, 20)

\* slotBasedPercentage of fafData (lines 860-862).
SlotBasedPercentage(totalFilled, totalApplicable) ==
  IF totalApplicable > 0 THEN Round(totalFilled * 100, totalApplicable) ELSE 0

-----------------------------------------------------------------------------
(* Inputs of the generator: what the caller passes and what the collaborators *)
(* (scanner, framework detector, manifest readers, FAB-FORMATS, tsconfig      *)
(* analysis) report.  Each is drawn from a few representative values.         *)

\* What is on disk at a path.
DiskKind(path) ==
  IF path = "/proj" THEN "dir"
  ELSE IF path = "/locked" THEN "unreadable"
  ELSE IF path = "/proj/notes.txt" THEN "file"
  ELSE "absent"

Root(type, path) == [type |-> type, path |-> path]

NoQuick == [projectGoal |-> None, projectName |-> None, mainLanguage |-> None,
            framework |-> None, hosting |-> None, projectType |-> None]

Opt(root, quick) == [projectRoot |-> root] @@ quick

OptionValues ==
  { Opt(Root("string", "/proj"), q) : q \in
      { NoQuick,
        [projectGoal |-> "Track parcels", projectName |-> "parcel-tracker",
         mainLanguage |-> "Python", framework |-> "Flask", hosting |-> "Heroku",
         projectType |-> "python-api"],
        [projectGoal |-> None, projectName |-> None, mainLanguage |-> None,
         framework |-> "none", hosting |-> "cloud", projectType |-> "latest-idea"] } }
  \cup
  { Opt(r, NoQuick) : r \in
      { Root("undefined", None), Root("string", None), Root("number", "42"),
        Root("string", "/missing"), Root("string", "/proj/notes.txt"),
        Root("string", "/locked") } }

NoReadme == [exists |-> FALSE, name |-> None, description |-> None, who |-> None,
             what |-> None, why |-> None, where |-> None, when |-> None, how |-> None]

\* What scan() resolves with when nothing can be read under the root.
EmptyScan ==
  [primaryLanguage |-> "Unknown", readme |-> NoReadme,
   hasLicense |-> FALSE, licenseName |-> None, hasTests |-> FALSE,
   hasCiCd |-> FALSE, cicdPlatform |-> None, hasDocker |-> FALSE,
   topFiles |-> {}]

ScanValues ==
  { EmptyScan,
    [primaryLanguage |-> "C++",
     readme |-> [exists |-> TRUE, name |-> "whisper", description |-> "Speech to text",
                 who |-> "readme: researchers", what |-> "readme: transcription",
                 why |-> "readme: offline use", where |-> "readme: desktop",
                 when |-> "readme: v1", how |-> "readme: cmake build"],
     hasLicense |-> TRUE, licenseName |-> "MIT", hasTests |-> TRUE,
     hasCiCd |-> TRUE, cicdPlatform |-> "GitHub Actions", hasDocker |-> TRUE,
     topFiles |-> { "CMakeLists.txt", "Makefile", "README.md" }],
    [primaryLanguage |-> "TypeScript",
     readme |-> [NoReadme EXCEPT !.exists = TRUE, !.name = "dashboard"],
     hasLicense |-> FALSE, licenseName |-> None, hasTests |-> FALSE,
     hasCiCd |-> FALSE, cicdPlatform |-> None, hasDocker |-> FALSE,
     topFiles |-> { "package.json", "README.md" }] }

Chars_Unknown == << "U", "n", "k", "n", "o", "w", "n" >>
Chars_React == << "R", "e", "a", "c", "t" >>
Chars_ReactNative == << "R", "e", "a", "c", "t", " ", "N", "a", "t", "i", "v", "e" >>
Chars_Express == << "E", "x", "p", "r", "e", "s", "s" >>
Chars_Django == << "D", "j", "a", "n", "g", "o" >>

Detection(framework, language, ecosystem) ==
  [framework |-> framework, language |-> language, ecosystem |-> ecosystem]

FrameworkValues ==
  { Null,
    Detection(Chars_Unknown, None, None),
    Detection(Chars_React, "JavaScript", "npm"),
    Detection(Chars_Express, None, None) }

NoContext ==
  [projectName |-> None, projectGoal |-> None, mainLanguage |-> None,
   framework |-> None, backend |-> None, server |-> None, apiType |-> None,
   database |-> None, hosting |-> None, cicd |-> None, buildTool |-> None,
   packageManager |-> None, testFramework |-> None, linter |-> None,
   targetUser |-> None, coreProblem |-> None, missionPurpose |-> None,
   deploymentMarket |-> None, timeline |-> None, approach |-> None]

FullContext ==
  [projectName |-> "fab-name", projectGoal |-> "fab goal", mainLanguage |-> "Go",
   framework |-> "Gin", backend |-> "fab backend", server |-> "fab server",
   apiType |-> "REST", database |-> "PostgreSQL", hosting |-> "Fly.io",
   cicd |-> "CircleCI", buildTool |-> "Bazel", packageManager |-> "pnpm",
   testFramework |-> "Vitest", linter |-> "ESLint",
   targetUser |-> "fab: operators", coreProblem |-> "fab: routing",
   missionPurpose |-> "fab: speed", deploymentMarket |-> "fab: cloud",
   timeline |-> "fab: Q3", approach |-> "fab: plugins"]

Metrics(grade, depth) == [highestGrade |-> grade, intelligenceDepth |-> depth]

\* The analysis the generator falls back to when processFiles throws.
EmptyAnalysis == [context |-> NoContext, qualityMetrics |-> Metrics("MINIMAL", 0)]

NoManifest == [name |-> None, description |-> None]

Chars_faf_cli == << "f", "a", "f", "-", "c", "l", "i" >>
Chars_dashboard == << "d", "a", "s", "h", "b", "o", "a", "r", "d" >>
Chars_cli == << "c", "l", "i" >>

\* packageData = {} : the name is a sequence of characters, empty when absent.
NoPackage ==
  [name |-> <<>>, description |-> None, bin |-> FALSE, keywords |-> {},
   dependencies |-> {}, enginesNode |-> None]

NoCargo == [isRustCLI |-> FALSE, name |-> None, description |-> None]

Human(who, what, why, where, when, how) ==
  [who |-> who, what |-> what, why |-> why, where |-> where, when |-> when, how |-> how]

\* Nothing but the root directory itself.
BareProject ==
  [packageData |-> NoPackage, pyprojectData |-> NoManifest, cargo |-> NoCargo,
   fabAnalysis |-> EmptyAnalysis, humanContext |-> Null, tsContext |-> Null,
   isBunProject |-> FALSE, hasGithubWorkflows |-> FALSE]

LoadedValues ==
  { BareProject,
    \* a Node command-line tool built with Bun
    [BareProject EXCEPT
       !.packageData = [name |-> Chars_faf_cli, description |-> "Context for AI",
                        bin |-> TRUE, keywords |-> { "cli" },
                        dependencies |-> { "commander", "chalk", "inquirer",
                                           "typescript", "jest" },
                        enginesNode |-> ">=18"],
       !.fabAnalysis = [context |-> FullContext,
                        qualityMetrics |-> Metrics("EXCEPTIONAL", 90)],
       !.humanContext = Human("relentless: devs", "relentless: context",
                              "relentless: trust", "relentless: terminal",
                              "relentless: now", "relentless: init"),
       !.tsContext = [strictMode |-> TRUE],
       !.isBunProject = TRUE,
       !.hasGithubWorkflows = TRUE],
    \* a web application
    [BareProject EXCEPT
       !.packageData = [NoPackage EXCEPT !.name = Chars_dashboard,
                                         !.dependencies = { "react" }],
       !.fabAnalysis = [context |-> [NoContext EXCEPT !.framework = "Next.js",
                                                      !.mainLanguage = "JavaScript"],
                        qualityMetrics |-> Metrics("GOOD", 50)],
       !.tsContext = [strictMode |-> FALSE]],
    \* a Rust command-line tool
    [BareProject EXCEPT
       !.cargo = [isRustCLI |-> TRUE, name |-> "ripfind", description |-> "Fast search"],
       !.fabAnalysis = [context |-> NoContext,
                        qualityMetrics |-> Metrics("BASIC", 70)],
       !.humanContext = Human("relentless: devs", None, None, None, None, None)],
    \* a Python package
    [BareProject EXCEPT
       !.pyprojectData = [name |-> "parcels", description |-> "Parcel tracking"],
       !.fabAnalysis = [context |-> [NoContext EXCEPT !.packageManager = "Poetry"],
                        qualityMetrics |-> Metrics("PROFESSIONAL", 41)]] }

\* Every key of contextSlotsFilled the generator writes.
SlotKeys ==
  Range(AllSlots) \cup
  { "license", "runtime", "css_framework", "ui_library", "frontend",
    "cli_framework", "_ai_project_type" }

NoSlots == [k \in SlotKeys |-> None]

NoScoring == [applicableSlots |-> <<>>]
NoFafData == [fafScore |-> -1]

-----------------------------------------------------------------------------
(* generateFafFromProject: the slot fills *)

\* contextSlotsFilled[slot] = value, written whenever value is truthy.
Overwrite(slot, value) == [slot |-> slot, value |-> value, guarded |-> FALSE]

Unguarded(slot, value) == [slot |-> slot, value |-> value, guarded |-> FALSE]

\* The same write behind && !contextSlotsFilled[slot].
IfEmpty(slot, value) == [slot |-> slot, value |-> value, guarded |-> TRUE]

\* The writes of one block of the generator, in program order.
RECURSIVE ApplyFills(_, _)
ApplyFills(slots, fills) ==
  IF fills = <<>> THEN slots
  ELSE LET f == Head(fills)
           written == IF f.value # None /\ (f.guarded => slots[f.slot] = None)
                        THEN [slots EXCEPT ![f.slot] = f.value]
                        ELSE slots
       IN  ApplyFills(written, Tail(fills))

\* String.prototype.includes
Contains(chars, sub) ==
  \E i \in 1..(Len(chars) - Len(sub) + 1) : SubSeq(chars, i, i + Len(sub) - 1) = sub

\* Lines 354-369
QuickModeFills(opts) ==
  << Overwrite("project_goal", opts.projectGoal),
     Overwrite("project_name", opts.projectName),
     Overwrite("main_language", opts.mainLanguage),
     Overwrite("framework", IF opts.framework # "none" THEN opts.framework ELSE None),
     Overwrite("hosting", IF opts.hosting # "cloud" THEN opts.hosting ELSE None) >>

\* Lines 373-375
ScannerFills(scan) ==
  << Overwrite("main_language",
               IF scan.primaryLanguage # "Unknown" THEN scan.primaryLanguage ELSE None) >>

\* Lines 378-388
FrameworkFills(fwResult) ==
  IF fwResult # Null /\ Str(fwResult.framework) # "Unknown"
    THEN << IfEmpty("framework", Str(fwResult.framework)),
            IfEmpty("main_language", fwResult.language),
            Overwrite("package_manager", fwResult.ecosystem) >>
    ELSE <<>>

\* Lines 409-436
AiFills(ai) ==
  IF ai # Null
    THEN << IfEmpty("project_goal", ai.description),
            IfEmpty("who", ai.who), IfEmpty("what", ai.what), IfEmpty("why", ai.why),
            IfEmpty("where", ai.where), IfEmpty("when", ai.when), IfEmpty("how", ai.how),
            Overwrite("_ai_project_type", ai.projectType) >>
    ELSE <<>>

\* Lines 439-464
ReadmeFills(readme) ==
  IF readme.exists
    THEN << IfEmpty("project_name", readme.name),
            IfEmpty("project_goal", readme.description),
            IfEmpty("who", readme.who), IfEmpty("what", readme.what),
            IfEmpty("why", readme.why), IfEmpty("where", readme.where),
            IfEmpty("when", readme.when), IfEmpty("how", readme.how) >>
    ELSE <<>>

\* Lines 489-501
BuildToolOf(topFiles) ==
  IF "CMakeLists.txt" \in topFiles THEN "CMake"
  ELSE IF "Makefile" \in topFiles THEN "Make"
  ELSE IF "meson.build" \in topFiles THEN "Meson"
  ELSE IF "build.gradle" \in topFiles \/ "build.gradle.kts" \in topFiles THEN "Gradle"
  ELSE IF "pom.xml" \in topFiles THEN "Maven"
  ELSE IF "build.zig" \in topFiles THEN "Zig Build"
  ELSE None

\* Lines 467-502
SignalFills(scan) ==
  << Overwrite("license", IF scan.hasLicense THEN scan.licenseName ELSE None),
     Overwrite("cicd", IF scan.hasCiCd THEN scan.cicdPlatform ELSE None),
     Overwrite("test_framework",
               IF scan.hasTests THEN "Detected (tests/ directory)" ELSE None),
     IfEmpty("hosting", IF scan.hasDocker THEN "Docker" ELSE None),
     IfEmpty("build_tool", BuildToolOf(scan.topFiles)) >>

\* Lines 505-507
FrameworkFallbackFills(fwResult) ==
  IF fwResult # Null THEN << IfEmpty("framework", Str(fwResult.framework)) >> ELSE <<>>

\* Lines 510-536
FabFills(ctx) ==
  << IfEmpty("project_name", ctx.projectName),
     IfEmpty("project_goal", ctx.projectGoal),
     Overwrite("main_language", ctx.mainLanguage),
     Overwrite("framework", ctx.framework),
     Overwrite("backend", ctx.backend),
     Overwrite("server", ctx.server),
     Overwrite("api_type", ctx.apiType),
     Overwrite("database", ctx.database),
     Overwrite("hosting", ctx.hosting),
     Overwrite("cicd", ctx.cicd),
     Overwrite("build_tool", ctx.buildTool),
     Overwrite("package_manager", ctx.packageManager),
     Overwrite("test_framework", ctx.testFramework),
     Overwrite("linter", ctx.linter),
     IfEmpty("who", ctx.targetUser), IfEmpty("what", ctx.coreProblem),
     IfEmpty("why", ctx.missionPurpose), IfEmpty("where", ctx.deploymentMarket),
     IfEmpty("when", ctx.timeline), IfEmpty("how", ctx.approach) >>

\* Lines 540-559
RelentlessFills(human) ==
  IF human # Null
    THEN << IfEmpty("who", human.who), IfEmpty("what", human.what),
            IfEmpty("why", human.why), IfEmpty("where", human.where),
            IfEmpty("when", human.when), IfEmpty("how", human.how) >>
    ELSE <<>>

\* Lines 598-619
RustCliFills(cargo) ==
  IF cargo.isRustCLI
    THEN << Overwrite("framework", "CLI"), Overwrite("api_type", "CLI"),
            Overwrite("hosting", "crates.io / Binary distribution"),
            Overwrite("backend", "Rust"), Overwrite("main_language", "Rust"),
            Overwrite("build_tool", "Cargo"), Overwrite("package_manager", "Cargo"),
            Overwrite("runtime", "Native binary"),
            Overwrite("css_framework", "N/A (CLI)"), Overwrite("ui_library", "N/A (CLI)"),
            Overwrite("database", "N/A (CLI)"), Overwrite("frontend", "N/A (CLI)"),
            IfEmpty("project_name", cargo.name),
            IfEmpty("project_goal", cargo.description) >>
    ELSE <<>>

\* Lines 588-595
IsNodeCLI(pkg) ==
  \/ pkg.bin
  \/ Contains(pkg.name, Chars_cli)
  \/ "cli" \in pkg.keywords \/ "command-line" \in pkg.keywords
  \/ pkg.dependencies \cap { "commander", "yargs", "oclif", "inquirer" } # {}

\* The first of the candidate packages that is a dependency.
FirstDependency(deps, candidates) ==
  IF \E i \in DOMAIN candidates : candidates[i][1] \in deps
    THEN LET i == CHOOSE k \in DOMAIN candidates :
                    /\ candidates[k][1] \in deps
                    /\ \A m \in 1..(k - 1) : candidates[m][1] \notin deps
         IN  candidates[i][2]
    ELSE None

\* Lines 621-673
NodeCliFills(pkg, isBunProject, hasGithubWorkflows) ==
  IF IsNodeCLI(pkg)
    THEN LET deps == pkg.dependencies
         IN << Overwrite("framework", "CLI"), Overwrite("api_type", "CLI"),
               Overwrite("hosting", "npm registry"), Overwrite("backend", "Node.js"),
               Overwrite("css_framework",
                 FirstDependency(deps, << <<"chalk", "chalk (terminal colors)">>,
                                          <<"colors", "colors">>, <<"ora", "ora">> >>)),
               Overwrite("ui_library",
                 FirstDependency(deps, << <<"inquirer", "inquirer (interactive prompts)">>,
                                          <<"prompts", "prompts">>,
                                          <<"enquirer", "enquirer">> >>)),
               Overwrite("cli_framework",
                 FirstDependency(deps, << <<"commander", "commander">>,
                                          <<"yargs", "yargs">>, <<"oclif", "oclif">> >>)),
               Overwrite("runtime",
                 IF isBunProject THEN "Bun"
                 ELSE IF pkg.enginesNode # None THEN "Node.js " \o pkg.enginesNode
                 ELSE "Node.js v16+"),
               Overwrite("package_manager", IF isBunProject THEN "Bun" ELSE None),
               Overwrite("build_tool",
                 IF deps \cap { "typescript", "@types/node" } # {}
                   THEN "TypeScript (tsc)" ELSE None),
               Overwrite("test_framework",
                 FirstDependency(deps, << <<"jest", "Jest">>, <<"mocha", "Mocha">>,
                                          <<"vitest", "Vitest">> >>)),
               Overwrite("cicd", IF hasGithubWorkflows THEN "GitHub Actions" ELSE None) >>
    ELSE <<>>

\* Lines 676-679
BunFills(isBunProject) ==
  IF isBunProject
    THEN << Overwrite("runtime", "Bun"), Overwrite("package_manager", "Bun") >>
    ELSE <<>>

\* Lines 233-238
ReadmeData(readme) ==
  IF readme.exists
    THEN [projectName |-> readme.name, description |-> readme.description,
          targetUser |-> readme.who]
    ELSE [projectName |-> None, description |-> None, targetUser |-> None]

\* Lines 682-706
ManifestFills(pkg, pyproject, readmeData) ==
  << IfEmpty("project_name", Str(pkg.name)),
     IfEmpty("project_goal", pkg.description),
     IfEmpty("project_name", pyproject.name),
     IfEmpty("project_goal", pyproject.description),
     IfEmpty("project_name", readmeData.projectName),
     IfEmpty("project_goal", readmeData.description),
     IfEmpty("who", readmeData.targetUser) >>

-----------------------------------------------------------------------------
(* analyzeReadmeWithAI *)

OPENROUTER_FREE_MODELS ==
  << "google/gemma-3-12b-it:free", "google/gemma-3-27b-it:free",
     "meta-llama/llama-3.3-70b-instruct:free",
     "mistralai/mistral-small-3.1-24b-instruct:free",
     "nvidia/nemotron-nano-9b-v2:free", "google/gemma-3-4b-it:free",
     "openrouter/free" >>

ANTHROPIC_MODEL == "claude-haiku-4-5-20251001"

Env(anthropicKey, openrouterKey) ==
  [ANTHROPIC_API_KEY |-> anthropicKey, OPENROUTER_API_KEY |-> openrouterKey]

NoEnv == Env(FALSE, FALSE)

EnvValues == { Env(a, o) : a \in BOOLEAN, o \in BOOLEAN }

OpenRouterFirst(env) ==
  IF env.OPENROUTER_API_KEY THEN "openrouter"
  ELSE IF env.ANTHROPIC_API_KEY THEN "anthropic"
  ELSE None

detectProvider(env) ==
  IF env.ANTHROPIC_API_KEY THEN "anthropic"
  ELSE IF env.OPENROUTER_API_KEY THEN "openrouter"
  ELSE None

\* The text of a model's answer: what JSON.parse finds between the first "{"
\* and the last "}" (after an optional code fence is removed), and, for an
\* object, its properties.
NoFields ==
  [description |-> None, who |-> None, what |-> None, why |-> None,
   where |-> None, when |-> None, how |-> None, projectType |-> None]

Text(fenced, body, fields) == [fenced |-> fenced, body |-> body, fields |-> fields]

TextValues ==
  { Text(FALSE, "object",
         [description |-> "ai: speech recognition", who |-> "ai: developers",
          what |-> "ai: inference", why |-> "ai: privacy", where |-> "ai: locally",
          when |-> "ai: stable", how |-> "ai: make", projectType |-> "library"]),
    Text(TRUE, "object",
         [NoFields EXCEPT !.description = "ai: a dashboard", !.who = "ai: analysts",
                          !.projectType = "web-app"]),
    Text(FALSE, "object",
         [NoFields EXCEPT !.description = "ai: a class library",
                          !.projectType = "constructor"]),
    Text(FALSE, "scalar", NoFields),
    Text(FALSE, "null", NoFields),
    Text(TRUE, "prose", NoFields),
    Text(FALSE, "prose", NoFields) }

\* Lines 162-194.  JSON.parse throws on prose; reading a property of null
\* throws; both are caught and give null.  A scalar has no properties, so
\* every field takes its default.
ParseAnything(text, source) == text.fields @@ [source |-> source]
parseAIResponse(text, source) ==
  IF text.body \in { "object", "scalar" }
    THEN [description |-> text.fields.description,
          who |-> text.fields.who, what |-> text.fields.what,
          why |-> text.fields.why, where |-> text.fields.where,
          when |-> text.fields.when, how |-> text.fields.how,
          projectType |-> text.fields.projectType,
          source |-> source]
    ELSE Null

Request(provider, model) == [provider |-> provider, model |-> model]

\* What the service can do with one request.
Answer(kind, text) == [kind |-> kind, text |-> text]

OpenRouterAnswers ==
  { Answer(k, Text(FALSE, "prose", NoFields)) :
      k \in { "network_error", "http_error", "bad_body", "empty" } }
  \cup { Answer("text", t) : t \in TextValues }

AnthropicAnswers ==
  { Answer(k, Text(FALSE, "prose", NoFields)) :
      k \in { "api_error", "no_content", "non_text" } }
  \cup { Answer("text", t) : t \in TextValues }

\* What an answer amounts to: a transport or protocol failure, or the kind of
\* text that came back.
AnswerCause(answer) ==
  IF answer.kind # "text" THEN answer.kind
  ELSE IF answer.text.body = "prose" THEN "non_json"
  ELSE IF answer.text.body = "null" THEN "json_null"
  ELSE "json"

\* The ways the enrichment can fail.
FailureOutcomes ==
  { "readme_unreadable", "no_key", "sdk_missing", "api_error", "no_content",
    "non_text", "network_error", "http_error", "bad_body", "empty",
    "non_json", "json_null" }

AiWaiting == aiPc \in { "anthropic_wait", "openrouter_wait" }

AiReturn(result, outcome) ==
  /\ aiRet' = result
  /\ aiOutcome' = outcome
  /\ aiPc' = "returned"

\* Lines 48-57 and 83-88, up to the first request: callAnthropic's import and
\* messages.create (99-106), or the first iteration's fetch (127-142).
AiStart ==
  /\ aiPc = "called"
  /\ LET provider == detectProvider(aiEnv)
     IN  IF provider = None
           THEN /\ AiReturn(Null, "no_key")
                /\ UNCHANGED <<aiModel, aiRequests>>
         ELSE IF provider = "anthropic"
           THEN \E sdkLoads \in BOOLEAN :
                  IF sdkLoads
                    THEN /\ aiRequests' = Append(aiRequests,
                                                 Request("anthropic", ANTHROPIC_MODEL))
                         /\ aiPc' = "anthropic_wait"
                         /\ UNCHANGED <<aiModel, aiRet, aiOutcome>>
                    ELSE /\ AiReturn(Null, "sdk_missing")
                         /\ UNCHANGED <<aiModel, aiRequests>>
         ELSE /\ aiModel' = 1
              /\ aiRequests' = Append(aiRequests,
                                      Request("openrouter", OPENROUTER_FREE_MODELS[1]))
              /\ aiPc' = "openrouter_wait"
              /\ UNCHANGED <<aiRet, aiOutcome>>
  /\ UNCHANGED <<aiEnv, aiClock>>
  /\ UNCHANGED <<walkVars, genVars, scanVars, yamlVars>>

\* Lines 102-109 and the catch at 89-92: messages.create settles.
AnthropicResponse ==
  /\ aiPc = "anthropic_wait"
  /\ \E answer \in AnthropicAnswers :
       LET result == IF answer.kind = "text"
                       THEN parseAIResponse(answer.text, "anthropic") ELSE Null
       IN  AiReturn(result, AnswerCause(answer))
  /\ UNCHANGED <<aiEnv, aiModel, aiRequests, aiClock>>
  /\ UNCHANGED <<walkVars, genVars, scanVars, yamlVars>>

\* Lines 144-156: the fetch of the current model settles; on any failure the
\* loop goes on to the next model's fetch, or ends with null.
OpenRouterResponse ==
  /\ aiPc = "openrouter_wait"
  /\ \E answer \in OpenRouterAnswers :
       LET result == IF answer.kind = "text"
                       THEN parseAIResponse(answer.text, "openrouter") ELSE Null
       IN  IF result # Null
             THEN /\ AiReturn(result, AnswerCause(answer))
                  /\ UNCHANGED <<aiModel, aiRequests>>
           ELSE IF aiModel < Len(OPENROUTER_FREE_MODELS)
             THEN /\ aiModel' = aiModel + 1
                  /\ aiRequests' = Append(aiRequests,
                       Request("openrouter", OPENROUTER_FREE_MODELS[aiModel + 1]))
                  /\ UNCHANGED <<aiPc, aiRet, aiOutcome>>
           ELSE /\ AiReturn(Null, AnswerCause(answer))
                /\ UNCHANGED <<aiModel, aiRequests>>
  /\ UNCHANGED <<aiEnv, aiClock>>
  /\ UNCHANGED <<walkVars, genVars, scanVars, yamlVars>>

\* A second passes while a request is outstanding.
Tick ==
  /\ AiWaiting
  /\ aiClock < MaxClock
  /\ aiClock' = aiClock + 1
  /\ UNCHANGED <<aiPc, aiEnv, aiModel, aiRequests, aiRet, aiOutcome>>
  /\ UNCHANGED <<walkVars, genVars, scanVars, yamlVars>>

AiIdle ==
  /\ aiPc = "idle" /\ aiEnv = NoEnv /\ aiModel = 0 /\ aiRequests = <<>>
  /\ aiRet = Null /\ aiOutcome = None /\ aiClock = 0

-----------------------------------------------------------------------------
(* generateFafFromProject *)

\* !projectRoot || typeof projectRoot !== 'string'
InvalidProjectRoot(root) ==
  \/ root.type = "undefined"
  \/ root.type = "string" /\ root.path = None
  \/ root.type # "string"

IsReadableDirectory(root) == root.type = "string" /\ DiskKind(root.path) = "dir"

InvalidProjectRootError == "Invalid projectRoot"

\* Lines 210-215
Validate ==
  /\ pc = "validate"
  /\ IF InvalidProjectRoot(options.projectRoot)
       THEN thrown' = InvalidProjectRootError /\ pc' = "threw"
       ELSE thrown' = thrown /\ pc' = "scan"
  /\ UNCHANGED <<options, scanResult, frameworkResult, loaded, aiResult,
                 contextSlotsFilled, inferredType, scoring, fafData, aiVars>>
  /\ UNCHANGED <<walkVars, scanVars, yamlVars>>

\* Lines 219-220: every probe of the scanner catches its own errors, so under a
\* root that cannot be read the scan resolves with the empty result.
Scan ==
  /\ pc = "scan"
  /\ scanResult' \in IF IsReadableDirectory(options.projectRoot)
                       THEN ScanValues ELSE { EmptyScan }
  /\ pc' = "detect"
  /\ UNCHANGED <<options, frameworkResult, loaded, aiResult, contextSlotsFilled,
                 inferredType, scoring, fafData, thrown, aiVars>>
  /\ UNCHANGED <<walkVars, scanVars, yamlVars>>

\* Lines 223-229
DetectFramework ==
  /\ pc = "detect"
  /\ frameworkResult' \in IF IsReadableDirectory(options.projectRoot)
                            THEN FrameworkValues
                            ELSE { Null, Detection(Chars_Unknown, None, None) }
  /\ pc' = "load"
  /\ UNCHANGED <<options, scanResult, loaded, aiResult, contextSlotsFilled,
                 inferredType, scoring, fafData, thrown, aiVars>>
  /\ UNCHANGED <<walkVars, scanVars, yamlVars>>

\* Lines 231-345 and 567-585: manifests, FAB-FORMATS, RELENTLESS, tsconfig,
\* bun.lockb, Cargo.toml.
Load ==
  /\ pc = "load"
  /\ loaded' \in IF IsReadableDirectory(options.projectRoot)
                   THEN LoadedValues ELSE { BareProject }
  /\ pc' = "quick"
  /\ UNCHANGED <<options, scanResult, frameworkResult, aiResult, contextSlotsFilled,
                 inferredType, scoring, fafData, thrown, aiVars>>
  /\ UNCHANGED <<walkVars, scanVars, yamlVars>>

\* One block of fills: from position "from" to position "to".
FillStep(from, to, fills) ==
  /\ pc = from
  /\ contextSlotsFilled' = ApplyFills(contextSlotsFilled, fills)
  /\ pc' = to
  /\ UNCHANGED <<options, scanResult, frameworkResult, loaded, aiResult,
                 inferredType, scoring, fafData, thrown, aiVars>>
  /\ UNCHANGED <<walkVars, scanVars, yamlVars>>

QuickMode == FillStep("quick", "scanner", QuickModeFills(options))

ScannerFill == FillStep("scanner", "framework", ScannerFills(scanResult))

FrameworkFill == FillStep("framework", "ai", FrameworkFills(frameworkResult))

\* Lines 392-402: read README.md and call the analyzer; a failed read is
\* caught and leaves aiResult null.
AiBlock ==
  /\ pc = "ai"
  /\ IF ~scanResult.readme.exists
       THEN /\ pc' = "ai_fills"
            /\ UNCHANGED aiVars
       ELSE \E readable \in BOOLEAN :
              IF readable
                THEN /\ pc' = "ai_wait"
                     /\ aiPc' = "called"
                     /\ aiEnv' \in EnvValues
                     /\ UNCHANGED <<aiModel, aiRequests, aiRet, aiOutcome, aiClock>>
                ELSE /\ pc' = "ai_fills"
                     /\ aiOutcome' = "readme_unreadable"
                     /\ UNCHANGED <<aiPc, aiEnv, aiModel, aiRequests, aiRet, aiClock>>
  /\ UNCHANGED <<options, scanResult, frameworkResult, loaded, aiResult,
                 contextSlotsFilled, inferredType, scoring, fafData, thrown>>
  /\ UNCHANGED <<walkVars, scanVars, yamlVars>>

\* Line 398: the awaited call resolves.
AiJoin ==
  /\ pc = "ai_wait"
  /\ aiPc = "returned"
  /\ aiResult' = aiRet
  /\ pc' = "ai_fills"
  /\ aiPc' = "idle" /\ aiEnv' = NoEnv /\ aiModel' = 0 /\ aiRequests' = <<>>
  /\ aiRet' = Null /\ aiClock' = 0
  /\ UNCHANGED <<options, scanResult, frameworkResult, loaded, contextSlotsFilled,
                 inferredType, scoring, fafData, thrown, aiOutcome>>
  /\ UNCHANGED <<walkVars, scanVars, yamlVars>>

AiFill == FillStep("ai_fills", "readme", AiFills(aiResult))

ReadmeFill == FillStep("readme", "signals", ReadmeFills(scanResult.readme))

SignalFill == FillStep("signals", "framework_fallback", SignalFills(scanResult))

FrameworkFallback ==
  FillStep("framework_fallback", "fab", FrameworkFallbackFills(frameworkResult))

FabFill == FillStep("fab", "relentless", FabFills(loaded.fabAnalysis.context))

RelentlessFill == FillStep("relentless", "rust_cli", RelentlessFills(loaded.humanContext))

RustCli == FillStep("rust_cli", "node_cli", RustCliFills(loaded.cargo))

NodeCli ==
  FillStep("node_cli", "bun",
           NodeCliFills(loaded.packageData, loaded.isBunProject, loaded.hasGithubWorkflows))

Bun == FillStep("bun", "manifests", BunFills(loaded.isBunProject))

ManifestFill ==
  FillStep("manifests", "infer",
           ManifestFills(loaded.packageData, loaded.pyprojectData,
                         ReadmeData(scanResult.readme)))

\* Lines 713-718
InferType ==
  /\ pc = "infer"
  /\ inferredType' = inferProjectType(scanResult, contextSlotsFilled["_ai_project_type"],
                                      frameworkResult, options.projectType)
  /\ pc' = "score"
  /\ UNCHANGED <<options, scanResult, frameworkResult, loaded, aiResult,
                 contextSlotsFilled, scoring, fafData, thrown, aiVars>>
  /\ UNCHANGED <<walkVars, scanVars, yamlVars>>

\* Lines 842-899: the fields of fafData that come from the scoring block.
FafData(type, score) ==
  [ fafScore            |-> score.fafScore,
    slotBasedPercentage |-> SlotBasedPercentage(score.totalFilled, score.totalApplicable),
    projectType         |-> type,
    totalSlots          |-> score.totalApplicable,
    naSlots             |-> score.naSlotCount ]

\* Lines 721-899
Score ==
  /\ pc = "score"
  /\ IF CategoriesNotAnArray(inferredType)
       THEN /\ thrown' = TypeError
            /\ pc' = "threw"
            /\ UNCHANGED <<scoring, fafData>>
       ELSE LET score == TypeAwareScoring(inferredType, contextSlotsFilled,
                                          loaded.fabAnalysis.qualityMetrics,
                                          loaded.tsContext)
            IN  /\ scoring' = score
                /\ fafData' = FafData(inferredType, score)
                /\ pc' = "done"
                /\ UNCHANGED thrown
  /\ UNCHANGED <<options, scanResult, frameworkResult, loaded, aiResult,
                 contextSlotsFilled, inferredType, aiVars>>
  /\ UNCHANGED <<walkVars, scanVars, yamlVars>>

-----------------------------------------------------------------------------
(* scanLanguages *)

EXTENSION_TO_LANGUAGE ==
  ".c" :> "C" @@ ".h" :> "C" @@ ".cpp" :> "C++" @@ ".cc" :> "C++" @@ ".cxx" :> "C++" @@
  ".hpp" :> "C++" @@ ".hh" :> "C++" @@ ".hxx" :> "C++" @@ ".c++" :> "C++" @@
  ".m" :> "Objective-C" @@ ".mm" :> "Objective-C++" @@
  ".js" :> "JavaScript" @@ ".mjs" :> "JavaScript" @@ ".cjs" :> "JavaScript" @@
  ".jsx" :> "JavaScript" @@ ".ts" :> "TypeScript" @@ ".tsx" :> "TypeScript" @@
  ".mts" :> "TypeScript" @@ ".cts" :> "TypeScript" @@
  ".html" :> "HTML" @@ ".htm" :> "HTML" @@
  ".css" :> "CSS" @@ ".scss" :> "SCSS" @@ ".sass" :> "Sass" @@ ".less" :> "Less" @@
  ".svelte" :> "Svelte" @@ ".vue" :> "Vue" @@
  ".rs" :> "Rust" @@ ".go" :> "Go" @@ ".zig" :> "Zig" @@
  ".swift" :> "Swift" @@ ".kt" :> "Kotlin" @@ ".kts" :> "Kotlin" @@
  ".java" :> "Java" @@ ".scala" :> "Scala" @@ ".clj" :> "Clojure" @@
  ".groovy" :> "Groovy" @@ ".gradle" :> "Groovy" @@
  ".py" :> "Python" @@ ".pyw" :> "Python" @@ ".pyi" :> "Python" @@
  ".rb" :> "Ruby" @@ ".erb" :> "Ruby" @@
  ".php" :> "PHP" @@
  ".pl" :> "Perl" @@ ".pm" :> "Perl" @@
  ".lua" :> "Lua" @@
  ".r" :> "R" @@ ".R" :> "R" @@
  ".jl" :> "Julia" @@
  ".sh" :> "Shell" @@ ".bash" :> "Shell" @@ ".zsh" :> "Shell" @@
  ".fish" :> "Shell" @@ ".ps1" :> "PowerShell" @@ ".bat" :> "Batchfile" @@
  ".cmd" :> "Batchfile" @@
  ".json" :> "JSON" @@ ".yaml" :> "YAML" @@ ".yml" :> "YAML" @@
  ".toml" :> "TOML" @@ ".xml" :> "XML" @@ ".ini" :> "INI" @@
  ".cu" :> "Cuda" @@ ".cuh" :> "Cuda" @@
  ".metal" :> "Metal" @@
  ".glsl" :> "GLSL" @@ ".vert" :> "GLSL" @@ ".frag" :> "GLSL" @@
  ".wgsl" :> "WGSL" @@ ".hlsl" :> "HLSL" @@
  ".cmake" :> "CMake" @@
  ".cs" :> "C#" @@ ".fs" :> "F#" @@ ".vb" :> "Visual Basic" @@
  ".ex" :> "Elixir" @@ ".exs" :> "Elixir" @@
  ".erl" :> "Erlang" @@ ".hrl" :> "Erlang" @@
  ".hs" :> "Haskell" @@ ".lhs" :> "Haskell" @@
  ".ml" :> "OCaml" @@ ".mli" :> "OCaml" @@
  ".dart" :> "Dart" @@
  ".sol" :> "Solidity" @@ ".v" :> "V" @@ ".nim" :> "Nim" @@
  ".d" :> "D" @@ ".cr" :> "Crystal" @@
  ".md" :> "Markdown" @@ ".rst" :> "reStructuredText" @@
  ".tex" :> "TeX" @@ ".latex" :> "TeX"

FILENAME_TO_LANGUAGE ==
  "Dockerfile" :> "Dockerfile" @@ "Makefile" :> "Makefile" @@
  "CMakeLists.txt" :> "CMake" @@ "Rakefile" :> "Ruby" @@ "Gemfile" :> "Ruby" @@
  "Vagrantfile" :> "Ruby" @@ "Justfile" :> "Just" @@ "Taskfile.yml" :> "YAML"

SKIP_EXTENSIONS ==
  { ".png", ".jpg", ".jpeg", ".gif", ".ico", ".svg", ".webp", ".bmp",
    ".mp3", ".mp4", ".wav", ".avi", ".mov", ".flac", ".ogg",
    ".zip", ".tar", ".gz", ".bz2", ".xz", ".7z", ".rar",
    ".woff", ".woff2", ".ttf", ".eot", ".otf",
    ".pdf", ".doc", ".docx", ".xls", ".xlsx",
    ".exe", ".dll", ".so", ".dylib", ".o", ".obj", ".a",
    ".lock", ".lockb",
    ".map", ".min.js", ".min.css",
    ".pyc", ".pyo", ".class",
    ".db", ".sqlite", ".sqlite3" }

EXCLUDE_FROM_PERCENTAGES ==
  { "JSON", "YAML", "TOML", "XML", "INI", "Markdown", "reStructuredText", "TeX" }

\* path.extname of a base name: from its last dot to its end; empty when the
\* name has no dot, when its only dot is its first character, and for "..".
LastDot(chars) ==
  LET dots == { i \in DOMAIN chars : chars[i] = "." }
  IN  IF dots = {} THEN 0 ELSE CHOOSE i \in dots : \A j \in dots : j <= i

extname(chars) ==
  IF LastDot(chars) <= 1 \/ chars = << ".", "." >> THEN <<>>
  ELSE SubSeq(chars, LastDot(chars), Len(chars))

\* What a name inherited from Object.prototype reads as when it is used as
\* the key of languageBytes (String(value)).
PrototypeValue(key) ==
  IF key = "__proto__" THEN "[object Object]"
  ELSE IF key = "constructor" THEN "function Object() { [native code] }"
  ELSE "function " \o key \o "() { [native code] }"

\* table[key] of a plain object ("" : undefined).
Lookup(table, key) ==
  IF key \in DOMAIN table THEN table[key]
  ELSE IF key \in ObjectPrototypeKeys THEN PrototypeValue(key)
  ELSE None

\* EXTENSION_TO_LANGUAGE[ext] || FILENAME_TO_LANGUAGE[basename]
LanguageOf(ext, basename) ==
  IF Lookup(EXTENSION_TO_LANGUAGE, ext) # None
    THEN Lookup(EXTENSION_TO_LANGUAGE, ext)
    ELSE Lookup(FILENAME_TO_LANGUAGE, basename)

\* The language the callback counts a file under ("" : the file is left out).
Classify(name) ==
  LET ext == Str(ToLowerCase(extname(name)))
  IN  IF ext \in SKIP_EXTENSIONS THEN None ELSE LanguageOf(ext, Str(name))

\* languageBytes[language].bytes += size; languageBytes[language].files++
AddToLanguage(map, language, size) ==
  IF \E i \in DOMAIN map : map[i].language = language
    THEN [i \in DOMAIN map |->
            IF map[i].language = language
              THEN [map[i] EXCEPT !.bytes = @ + size, !.files = @ + 1]
              ELSE map[i]]
    ELSE Append(map, [language |-> language, bytes |-> size, files |-> 1])

\* .filter(([lang]) => !EXCLUDE_FROM_PERCENTAGES.has(lang))
NotExcluded(map) == SelectSeq(map, LAMBDA e : e.language \notin EXCLUDE_FROM_PERCENTAGES)

RECURSIVE SumBytes(_)
SumBytes(map) == IF map = <<>> THEN 0 ELSE Head(map).bytes + SumBytes(Tail(map))

\* Array.prototype.sort((a, b) => b.bytes - a.bytes): stable, descending.
RECURSIVE InsertByBytes(_, _)
InsertByBytes(sorted, e) ==
  IF sorted = <<>> THEN << e >>
  ELSE IF Head(sorted).bytes >= e.bytes
    THEN << Head(sorted) >> \o InsertByBytes(Tail(sorted), e)
    ELSE << e >> \o sorted

RECURSIVE SortedFrom(_, _)
SortedFrom(sorted, rest) ==
  IF rest = <<>> THEN sorted
  ELSE SortedFrom(InsertByBytes(sorted, Head(rest)), Tail(rest))

InsertionOrder(map) == map
SortByBytesDesc(map) == SortedFrom(<<>>, map)

\* codeTotalBytes > 0 ? (data.bytes / codeTotalBytes) * 100 : 0, as a rational
Percentage(bytes, codeTotalBytes) ==
  IF codeTotalBytes > 0 THEN << bytes * 100, codeTotalBytes >> ELSE << 0, 1 >>

\* percentage.toFixed(1), in tenths of a percent
ToFixed1(percentage) == Round(percentage[1] * 10, percentage[2])

Unknown == "Unknown"

\* The per-file callback of scanLanguages, applied to the next file of the walk.
ClassifyFile ==
  /\ langPc = "walking"
  /\ langIdx <= Len(walkedFiles)
  /\ LET file == walkedFiles[langIdx]
         language == Classify(file.name)
     IN  IF language = None
           THEN UNCHANGED << languageBytes, totalFiles, totalBytes, counted >>
           ELSE /\ totalFiles' = totalFiles + 1
                /\ totalBytes' = totalBytes + file.size
                /\ languageBytes' = AddToLanguage(languageBytes, language, file.size)
                /\ counted' = counted \cup { langIdx }
  /\ langIdx' = langIdx + 1
  /\ UNCHANGED << langPc, walkedFiles, languageScan >>
  /\ UNCHANGED << walkVars, genVars, aiVars, readmeVars, qualityVars, joinVars, yamlVars >>

\* The aggregation after the walk.
Aggregate ==
  /\ langPc = "walking"
  /\ langIdx > Len(walkedFiles)
  /\ LET codeTotalBytes == SumBytes(NotExcluded(languageBytes))
         languages ==
           SortByBytesDesc(
             [i \in DOMAIN NotExcluded(languageBytes) |->
                [language |-> NotExcluded(languageBytes)[i].language,
                 bytes |-> NotExcluded(languageBytes)[i].bytes,
                 percentage |-> Percentage(NotExcluded(languageBytes)[i].bytes, codeTotalBytes),
                 fileCount |-> NotExcluded(languageBytes)[i].files]])
     IN  languageScan' =
           [languages |-> languages,
            languageStrings |->
              [i \in DOMAIN languages |->
                 [language |-> languages[i].language,
                  tenths |-> ToFixed1(languages[i].percentage)]],
            primaryLanguage |-> IF Len(languages) > 0 THEN languages[1].language ELSE Unknown,
            totalFiles |-> totalFiles,
            totalBytes |-> totalBytes]
  /\ langPc' = "done"
  /\ UNCHANGED << walkedFiles, langIdx, languageBytes, totalFiles, totalBytes, counted >>
  /\ UNCHANGED << walkVars, genVars, aiVars, readmeVars, qualityVars, joinVars, yamlVars >>

\* The files of a scan: names as character sequences, sizes in bytes.
Chars_main_cpp == << "m", "a", "i", "n", ".", "c", "p", "p" >>
Chars_util_h == << "u", "t", "i", "l", ".", "h" >>
Chars_main_c == << "m", "a", "i", "n", ".", "c" >>
Chars_foo_min_js == << "f", "o", "o", ".", "m", "i", "n", ".", "j", "s" >>
Chars_foo_min_css == << "f", "o", "o", ".", "m", "i", "n", ".", "c", "s", "s" >>
Chars_app_js == << "a", "p", "p", ".", "j", "s" >>
Chars_app_js_map == << "a", "p", "p", ".", "j", "s", ".", "m", "a", "p" >>
Chars_data_json == << "d", "a", "t", "a", ".", "j", "s", "o", "n" >>
Chars_Makefile == << "M", "a", "k", "e", "f", "i", "l", "e" >>
Chars_notes_txt == << "n", "o", "t", "e", "s", ".", "t", "x", "t" >>
Chars_constructor == << "c", "o", "n", "s", "t", "r", "u", "c", "t", "o", "r" >>
Chars_LIB_RS == << "L", "I", "B", ".", "R", "S" >>
Chars_logo_PNG == << "l", "o", "g", "o", ".", "P", "N", "G" >>
Chars_bashrc == << ".", "b", "a", "s", "h", "r", "c" >>

Sized(name, size) == [name |-> name, size |-> size]

FileValues ==
  { Sized(Chars_main_cpp, 20), Sized(Chars_util_h, 50), Sized(Chars_util_h, 20),
    Sized(Chars_main_c, 0), Sized(Chars_foo_min_js, 90), Sized(Chars_foo_min_css, 90),
    Sized(Chars_app_js, 20), Sized(Chars_app_js_map, 50), Sized(Chars_data_json, 90),
    Sized(Chars_Makefile, 20), Sized(Chars_notes_txt, 20), Sized(Chars_constructor, 20),
    Sized(Chars_LIB_RS, 0), Sized(Chars_logo_PNG, 90), Sized(Chars_bashrc, 20) }

-----------------------------------------------------------------------------
(* parseReadme *)

\* The content of a README is a sequence of characters; offsets into it are
\* counted from 0 as in the code, indices of the sequence from 1.

Max(a, b) == IF a >= b THEN a ELSE b

\* String.prototype.trim
Trim(chars) ==
  LET solid == { i \in DOMAIN chars : ~IsWhitespace(chars[i]) }
  IN  IF solid = {} THEN <<>>
      ELSE SubSeq(chars, CHOOSE i \in solid : \A j \in solid : i <= j,
                         CHOOSE i \in solid : \A j \in solid : j <= i)

\* String.prototype.substring(a, b)
Substring(chars, a, b) ==
  LET lo == Max(0, Min(Min(a, b), Len(chars)))
      hi == Max(0, Min(Max(a, b), Len(chars)))
  IN  SubSeq(chars, lo + 1, hi)

\* Whether pattern (a string) stands in chars at index i.
At(chars, i, pattern) ==
  /\ i >= 1
  /\ i + Len(pattern) - 1 <= Len(chars)
  /\ Str(SubSeq(chars, i, i + Len(pattern) - 1)) = pattern

\* Last index of the run of whitespace that holds index i.
WsRunEnd(chars, i) ==
  CHOOSE e \in i..Len(chars) :
    /\ \A k \in i..e : IsWhitespace(chars[k])
    /\ e = Len(chars) \/ ~IsWhitespace(chars[e + 1])

\* Last index of the line that holds index i.
LineEnd(chars, i) ==
  CHOOSE e \in i..Len(chars) :
    /\ \A k \in (i + 1)..e : chars[k] # "\n"
    /\ e = Len(chars) \/ chars[e + 1] = "\n"

NoMatch == [found |-> FALSE, index |-> 0, end |-> 0, text |-> <<>>]

\* /^#\s+(.+)$/m and /^##\s+(.+)$/m tried at index i: the marker at the start
\* of a line, a run of whitespace (line breaks included), then the rest of a
\* line.  When the whitespace runs to the end of the content the run gives
\* back its last character that is no line break, and that is the text.
HeadingAt(chars, i, hashes) ==
  IF ~(/\ (i = 1 \/ chars[i - 1] = "\n")
       /\ i + hashes <= Len(chars)
       /\ \A k \in i..(i + hashes - 1) : chars[k] = "#"
       /\ IsWhitespace(chars[i + hashes]))
    THEN NoMatch
    ELSE LET wsEnd == WsRunEnd(chars, i + hashes)
             back == { k \in (i + hashes + 1)..wsEnd : chars[k] # "\n" }
             from == IF wsEnd < Len(chars) THEN wsEnd + 1
                     ELSE IF back # {} THEN CHOOSE k \in back : \A j \in back : j <= k
                     ELSE 0
         IN  IF from = 0 THEN NoMatch
             ELSE [found |-> TRUE, index |-> i - 1, end |-> LineEnd(chars, from),
                   text |-> SubSeq(chars, from, LineEnd(chars, from))]

\* content.match(/^#\s+(.+)$/m): the first match.
H1Match(content) ==
  LET hits == { i \in DOMAIN content : HeadingAt(content, i, 1).found }
  IN  IF hits = {} THEN NoMatch
      ELSE HeadingAt(content, CHOOSE i \in hits : \A j \in hits : i <= j, 1)

\* The loop over sectionRegex.exec(content): heading and start of each match.
RECURSIVE SectionPositionsFrom(_, _)
SectionPositionsFrom(content, i) ==
  LET hits == { j \in i..Len(content) : HeadingAt(content, j, 2).found }
  IN  IF hits = {} THEN <<>>
      ELSE LET m == HeadingAt(content, CHOOSE h \in hits : \A k \in hits : h <= k, 2)
           IN  << [heading |-> Trim(m.text), start |-> m.end] >>
               \o SectionPositionsFrom(content, m.end + 1)

SectionPositions(content) == SectionPositionsFrom(content, 1)

\* The offset the code takes for the start of the next heading line.
NextStart(content, positions, i) ==
  IF i + 1 <= Len(positions)
    THEN positions[i + 1].start - Len(positions[i + 1].heading) - 3
    ELSE Len(content)

\* content.substring(section.start, nextStart).trim().substring(0, 1000)
SectionContent(content, positions, i) ==
  Substring(Trim(Substring(content, positions[i].start, NextStart(content, positions, i))),
            0, 1000)

\* result.sections[key] = value: a new key goes last, an old key keeps its place.
SetKey(map, key, value) ==
  IF \E i \in DOMAIN map : map[i].key = key
    THEN [i \in DOMAIN map |-> IF map[i].key = key THEN [key |-> key, body |-> value] ELSE map[i]]
    ELSE Append(map, [key |-> key, body |-> value])

RECURSIVE SectionsFrom(_, _, _, _)
SectionsFrom(content, positions, i, map) ==
  IF i > Len(positions) THEN map
  ELSE SectionsFrom(content, positions, i + 1,
         SetKey(map, ToLowerCase(positions[i].heading), SectionContent(content, positions, i)))

Sections(content) == SectionsFrom(content, SectionPositions(content), 1, <<>>)

\* The grave accent that marks inline code and fences code blocks cannot be
\* written in a string here; the model writes it as a tilde, which the
\* documents use for nothing else.
Grave == "~"
Fence == "~~~"

\* The smallest index j >= from where pattern stands, with no line break
\* between from and j when sameLine is set (0 : none).
FindFrom(chars, pattern, from, sameLine) ==
  LET hits == { j \in from..Len(chars) :
                  /\ At(chars, j, pattern)
                  /\ sameLine => \A k \in from..(j - 1) : chars[k] # "\n" }
  IN  IF hits = {} THEN 0 ELSE CHOOSE j \in hits : \A k \in hits : j <= k

\* One match of a pattern that parseReadme replaces, tried at index i: the
\* index of the match's last character (0 : no match at i) and the part of
\* the match that the replacement keeps (keepFrom > keepTo : nothing).
\*   "link"   /\[([^\]]+)\]\([^)]+\)/      -> '$1'
\*   "bold"   /\*\*(.+?)\*\*/              -> '$1'
\*   "italic" /\*(.+?)\*/                  -> '$1'
\*   "code"   a grave, (.+?), a grave      -> '$1'
\*   "image"  /!\[.*?\]\(.*?\)/            -> ''
\*   "html"   /<[^>]+>/                    -> ''
\*   "fence"  three graves, [\s\S]*?, three graves -> ''
\*   "badge"  /\[!\[.*?\]\(.*?\)\]\(.*?\)/ -> ''
Miss == [end |-> 0, keepFrom |-> 1, keepTo |-> 0]

Drop(end) == [end |-> end, keepFrom |-> 1, keepTo |-> 0]

LinkAt(chars, i) ==
  LET close == IF chars[i] = "[" THEN FindFrom(chars, "]", i + 1, FALSE) ELSE 0
      paren == IF close >= i + 2 /\ At(chars, close + 1, "(")
                 THEN FindFrom(chars, ")", close + 2, FALSE)
                 ELSE 0
  IN  IF paren >= close + 3 /\ close # 0
        THEN [end |-> paren, keepFrom |-> i + 1, keepTo |-> close - 1]
        ELSE Miss

\* The mark, at least one character of the same line, the mark again.
WrappedAt(chars, mark, i) ==
  LET shut == IF At(chars, i, mark) THEN FindFrom(chars, mark, i + Len(mark) + 1, TRUE) ELSE 0
  IN  IF shut # 0 /\ chars[i + Len(mark)] # "\n"
        THEN [end |-> shut + Len(mark) - 1, keepFrom |-> i + Len(mark), keepTo |-> shut - 1]
        ELSE Miss

ImageAt(chars, i) ==
  LET mid == IF At(chars, i, "![") THEN FindFrom(chars, "](", i + 2, TRUE) ELSE 0
      close == IF mid = 0 THEN 0 ELSE FindFrom(chars, ")", mid + 2, TRUE)
  IN  Drop(close)

HtmlAt(chars, i) ==
  LET close == IF chars[i] = "<" THEN FindFrom(chars, ">", i + 1, FALSE) ELSE 0
  IN  IF close >= i + 2 THEN Drop(close) ELSE Miss

FenceAt(chars, i) ==
  LET close == IF At(chars, i, Fence) THEN FindFrom(chars, Fence, i + 3, FALSE) ELSE 0
  IN  IF close # 0 THEN Drop(close + 2) ELSE Miss

\* The index of the last character of a badge that starts at i (0 : none).
BadgeEnd(chars, i) ==
  LET mid == IF At(chars, i, "[![") THEN FindFrom(chars, "](", i + 3, TRUE) ELSE 0
      link == IF mid = 0 THEN 0 ELSE FindFrom(chars, ")](", mid + 2, TRUE)
  IN  IF link = 0 THEN 0 ELSE FindFrom(chars, ")", link + 3, TRUE)

MatchAt(kind, chars, i) ==
  CASE kind = "link" -> LinkAt(chars, i)
    [] kind = "bold" -> WrappedAt(chars, "**", i)
    [] kind = "italic" -> WrappedAt(chars, "*", i)
    [] kind = "code" -> WrappedAt(chars, Grave, i)
    [] kind = "image" -> ImageAt(chars, i)
    [] kind = "html" -> HtmlAt(chars, i)
    [] kind = "fence" -> FenceAt(chars, i)
    [] kind = "badge" -> Drop(BadgeEnd(chars, i))

\* String.prototype.replace with a global pattern, from index i on: the
\* matches are taken from left to right and do not overlap.
RECURSIVE ReplaceFrom(_, _, _)
ReplaceFrom(kind, chars, i) ==
  LET hits == { j \in i..Len(chars) : MatchAt(kind, chars, j).end # 0 }
  IN  IF hits = {} THEN SubSeq(chars, i, Len(chars))
      ELSE LET j == CHOOSE h \in hits : \A k \in hits : h <= k
               m == MatchAt(kind, chars, j)
           IN  SubSeq(chars, i, j - 1) \o SubSeq(chars, m.keepFrom, m.keepTo)
               \o ReplaceFrom(kind, chars, m.end + 1)

Replace(kind, chars) == ReplaceFrom(kind, chars, 1)

\* A chain of .replace calls, applied in the order of kinds.
RECURSIVE ReplaceEach(_, _)
ReplaceEach(kinds, chars) ==
  IF kinds = <<>> THEN chars
  ELSE ReplaceEach(Tail(kinds), Replace(Head(kinds), chars))

\* The cleaning of the H1 text into the project name.
CleanName(text) == Trim(ReplaceEach(<< "badge", "image", "link", "html" >>, text))

\* afterH1.split('\n')
RECURSIVE Split(_)
Split(chars) ==
  LET breaks == { i \in DOMAIN chars : chars[i] = "\n" }
  IN  IF breaks = {} THEN << chars >>
      ELSE LET b == CHOOSE i \in breaks : \A j \in breaks : i <= j
           IN  << SubSeq(chars, 1, b - 1) >> \o Split(SubSeq(chars, b + 1, Len(chars)))

\* trimmed.match(/^!\[.*?\]\(.*?\)$/)
IsImageLine(t) ==
  /\ At(t, 1, "![")
  /\ t[Len(t)] = ")"
  /\ \E j \in 3..(Len(t) - 2) : At(t, j, "](")

\* trimmed.match(/^\[!\[.*?\]\(.*?\)\]\(.*?\)$/)
IsBadgeLine(t) ==
  /\ At(t, 1, "[![")
  /\ t[Len(t)] = ")"
  /\ \E j \in 4..Len(t) : \E k \in (j + 2)..(Len(t) - 3) :
       At(t, j, "](") /\ At(t, k, ")](")

\* trimmed.match(/^(?:Stable|Latest|Version):/i)
IsLabelLine(t) ==
  \/ At(ToLowerCase(t), 1, "stable:")
  \/ At(ToLowerCase(t), 1, "latest:")
  \/ At(ToLowerCase(t), 1, "version:")

\* Every line of the rest of the document that is not blank.
NonBlankLines(lines, foundDesc) ==
  SelectSeq([i \in DOMAIN lines |-> Trim(lines[i])], LAMBDA l : l # <<>>)

\* The loop over the lines after the H1: the trimmed lines of the description.
RECURSIVE DescLines(_, _)
DescLines(lines, foundDesc) ==
  IF lines = <<>> THEN <<>>
  ELSE LET trimmed == Trim(Head(lines))
       IN  IF trimmed = <<>>
             THEN (IF foundDesc THEN <<>> ELSE DescLines(Tail(lines), foundDesc))
           ELSE IF IsImageLine(trimmed) \/ IsBadgeLine(trimmed) \/ IsLabelLine(trimmed)
             THEN DescLines(Tail(lines), foundDesc)
           ELSE IF At(trimmed, 1, "#") THEN <<>>
           ELSE << trimmed >> \o DescLines(Tail(lines), TRUE)

\* descLines.join(' ')
RECURSIVE JoinSpaces(_)
JoinSpaces(lines) ==
  IF lines = <<>> THEN <<>>
  ELSE IF Len(lines) = 1 THEN lines[1]
  ELSE lines[1] \o << " " >> \o JoinSpaces(Tail(lines))

\* The markdown cleaning of the description.
CleanDescription(desc) ==
  Trim(ReplaceEach(<< "link", "bold", "italic", "code", "image", "html" >>, desc))

\* An optional string of the result: undefined, or a string (maybe empty).
Undefined == [defined |-> FALSE, text |-> <<>>]
Defined(chars) == [defined |-> TRUE, text |-> chars]

\* result.description
Description(content) ==
  IF ~H1Match(content).found THEN Undefined
  ELSE LET descLines == DescLines(Split(Substring(content, H1Match(content).end, Len(content))),
                                  FALSE)
       IN  IF Len(descLines) > 0
             THEN Defined(Substring(CleanDescription(JoinSpaces(descLines)), 0, 500))
             ELSE Undefined

\* cleanSectionContent
cleanSectionContent(content) ==
  Substring(
    Trim(ReplaceEach(<< "fence", "link", "bold", "italic", "code", "image", "html" >>, content)),
    0, 300)

\* Lines are written as strings and spelled out as characters.
RECURSIVE JoinLines(_)
JoinLines(lines) ==
  IF lines = <<>> THEN <<>>
  ELSE IF Len(lines) = 1 THEN lines[1]
  ELSE lines[1] \o << "\n" >> \o JoinLines(Tail(lines))

\* key.match(/^(...)/i) of the six extract helpers; the optional character
\* of getting.?started and quick.?start is any one character.
KeyMatches(field, key) ==
  LET k == ToLowerCase(key)
      gettingStarted ==
        At(k, 1, "gettingstarted") \/ (At(k, 1, "getting") /\ At(k, 9, "started"))
      quickStart ==
        At(k, 1, "quickstart") \/ (At(k, 1, "quick") /\ At(k, 7, "start"))
  IN  CASE field = "who" ->
             \E w \in { "target", "audience", "for", "user", "who", "contributor" } : At(k, 1, w)
        [] field = "what" ->
             \E w \in { "what", "about", "overview", "description", "introduction", "summary" } :
               At(k, 1, w)
        [] field = "why" ->
             \E w \in { "why", "motivation", "purpose", "problem", "background", "rationale" } :
               At(k, 1, w)
        [] field = "where" ->
             \/ \E w \in { "deploy", "hosting", "where", "platform", "installation" } : At(k, 1, w)
             \/ gettingStarted
        [] field = "when" ->
             \E w \in { "roadmap", "timeline", "when", "changelog", "release", "version" } :
               At(k, 1, w)
        [] field = "how" ->
             \/ \E w \in { "how", "usage", "installation", "setup" } : At(k, 1, w)
             \/ quickStart \/ gettingStarted

\* for (const key of Object.keys(sections)) if (key.match(...)) return
\* this.cleanSectionContent(sections[key])
FromSections(field, sections) ==
  LET hits == { i \in DOMAIN sections : KeyMatches(field, sections[i].key) }
  IN  IF hits = {} THEN Undefined
      ELSE Defined(cleanSectionContent(
             sections[CHOOSE i \in hits : \A j \in hits : i <= j].body))

\* /(?:built|designed|made|created)\s+(?:for|by)\s+([^.!\n]+)/i tried at
\* index i, piece by piece; each piece answers the index after it (0 : the
\* pattern does not match).

\* A word of the set, then \s+ : the index after the whitespace.
WordThenSpace(lower, i, words) ==
  LET found == { w \in words : At(lower, i, w) }
  IN  IF i = 0 \/ found = {} THEN 0
      ELSE IF ~At(lower, i + Len(CHOOSE w \in found : TRUE), " ")
              /\ ~At(lower, i + Len(CHOOSE w \in found : TRUE), "\n")
              /\ ~At(lower, i + Len(CHOOSE w \in found : TRUE), "\t")
        THEN 0
      ELSE WsRunEnd(lower, i + Len(CHOOSE w \in found : TRUE)) + 1

\* ([^.!\n]+) after a run of whitespace that ends before index i: where the
\* group starts.  When the run is followed by '.', '!' or nothing, the run
\* gives back its last character that is no line break.
GroupStart(content, i) ==
  LET back == { k \in 2..(i - 1) :
                  /\ IsWhitespace(content[k]) /\ content[k] # "\n"
                  /\ IsWhitespace(content[k - 1])
                  /\ \A j \in k..(i - 1) : IsWhitespace(content[j]) }
  IN  IF i = 0 THEN 0
      ELSE IF i <= Len(content) /\ content[i] \notin { ".", "!" } THEN i
      ELSE IF back # {} THEN CHOOSE k \in back : \A j \in back : j <= k
      ELSE 0

\* The last index of the group that starts at index from.
GroupEnd(content, from) ==
  CHOOSE e \in from..Len(content) :
    /\ \A k \in (from + 1)..e : content[k] \notin { ".", "!", "\n" }
    /\ e = Len(content) \/ content[e + 1] \in { ".", "!", "\n" }

\* Where the group of a match that starts at index i starts (0 : no match).
ForPhraseAt(content, i) ==
  GroupStart(content,
    WordThenSpace(ToLowerCase(content),
      WordThenSpace(ToLowerCase(content), i, { "built", "designed", "made", "created" }),
      { "for", "by" }))

\* fullContent.match(...) : forMatch[1].trim() of the first match
GroupOf(content, from) == Trim(SubSeq(content, from, GroupEnd(content, from)))

ForPhrase(content) ==
  LET hits == { i \in DOMAIN content : ForPhraseAt(content, i) # 0 }
  IN  IF hits = {} THEN Undefined
      ELSE Defined(GroupOf(content,
             ForPhraseAt(content, CHOOSE i \in hits : \A j \in hits : i <= j)))

extractWho(sections, fullContent) ==
  IF FromSections("who", sections).defined THEN FromSections("who", sections)
  ELSE ForPhrase(fullContent)

extractWhat(sections, description) ==
  IF FromSections("what", sections).defined THEN FromSections("what", sections)
  ELSE IF description.defined /\ description.text # <<>> THEN description
  ELSE Undefined

extractWhy(sections) == FromSections("why", sections)
extractWhere(sections) == FromSections("where", sections)
extractWhen(sections) == FromSections("when", sections)
extractHow(sections) == FromSections("how", sections)

\* content.match(/\[!\[.*?\]\(.*?\)\]\(.*?\)/g): the matches, in order.
RECURSIVE BadgeMatchesFrom(_, _)
BadgeMatchesFrom(content, i) ==
  LET hits == { j \in i..Len(content) : BadgeEnd(content, j) # 0 }
  IN  IF hits = {} THEN <<>>
      ELSE LET j == CHOOSE h \in hits : \A k \in hits : h <= k
           IN  << SubSeq(content, j, BadgeEnd(content, j)) >>
               \o BadgeMatchesFrom(content, BadgeEnd(content, j) + 1)

\* b.match(/!\[(.+?)\]/) ? altMatch[1] : 'badge'
BadgeAlt(b) ==
  LET hits == { i \in DOMAIN b : At(b, i, "![") /\ FindFrom(b, "]", i + 3, TRUE) # 0
                                 /\ b[i + 2] # "\n" }
  IN  IF hits = {} THEN << "b", "a", "d", "g", "e" >>
      ELSE LET i == CHOOSE h \in hits : \A j \in hits : h <= j
           IN  SubSeq(b, i + 2, FindFrom(b, "]", i + 3, TRUE) - 1)

\* result.badges ("undefined" when the content has no badge)
Badges(content) ==
  [defined |-> BadgeMatchesFrom(content, 1) # <<>>,
   list |-> [i \in DOMAIN BadgeMatchesFrom(content, 1) |->
               BadgeAlt(BadgeMatchesFrom(content, 1)[i])]]

\* result.license: the first 100 characters of the first section whose key
\* holds "license" or "licence".
ReadmeLicense(sections) ==
  LET hits == { i \in DOMAIN sections :
                  \E j \in DOMAIN sections[i].key :
                    At(sections[i].key, j, "license") \/ At(sections[i].key, j, "licence") }
  IN  IF hits = {} THEN Undefined
      ELSE Defined(Substring(sections[CHOOSE i \in hits : \A j \in hits : i <= j].body, 0, 100))

\* { exists: false, sections: {} }
NoReadmeContext ==
  [exists |-> FALSE, name |-> Undefined, description |-> Undefined, sections |-> <<>>,
   who |-> Undefined, what |-> Undefined, why |-> Undefined, where |-> Undefined,
   when |-> Undefined, how |-> Undefined,
   badges |-> [defined |-> FALSE, list |-> <<>>], license |-> Undefined]

\* const result = { exists: true, sections: {} }
NewReadmeContext == [NoReadmeContext EXCEPT !.exists = TRUE]

\* parseReadme up to the creation of result: no README found or a README that
\* cannot be read ends the call.
ReadReadme ==
  /\ readmePc = "read"
  /\ IF readmeFile = "ok"
       THEN readmeResult' = NewReadmeContext /\ readmePc' = "title"
       ELSE readmeResult' = NoReadmeContext /\ readmePc' = "done"
  /\ UNCHANGED << readmeFile, readmeContent >>
  /\ UNCHANGED << walkVars, genVars, aiVars, langVars, qualityVars, joinVars, yamlVars >>

\* The H1 as project name, and the description from the lines after it.
ParseTitle ==
  /\ readmePc = "title"
  /\ readmeResult' =
       [readmeResult EXCEPT
          !.name = IF H1Match(readmeContent).found
                     THEN Defined(CleanName(H1Match(readmeContent).text))
                     ELSE Undefined,
          !.description = Description(readmeContent)]
  /\ readmePc' = "sections"
  /\ UNCHANGED << readmeFile, readmeContent >>
  /\ UNCHANGED << walkVars, genVars, aiVars, langVars, qualityVars, joinVars, yamlVars >>

\* The ## sections.
ParseSections ==
  /\ readmePc = "sections"
  /\ readmeResult' = [readmeResult EXCEPT !.sections = Sections(readmeContent)]
  /\ readmePc' = "fields"
  /\ UNCHANGED << readmeFile, readmeContent >>
  /\ UNCHANGED << walkVars, genVars, aiVars, langVars, qualityVars, joinVars, yamlVars >>

\* The six fields.
ExtractFields ==
  /\ readmePc = "fields"
  /\ readmeResult' =
       [readmeResult EXCEPT
          !.who = extractWho(readmeResult.sections, readmeContent),
          !.what = extractWhat(readmeResult.sections, readmeResult.description),
          !.why = extractWhy(readmeResult.sections),
          !.where = extractWhere(readmeResult.sections),
          !.when = extractWhen(readmeResult.sections),
          !.how = extractHow(readmeResult.sections)]
  /\ readmePc' = "badges"
  /\ UNCHANGED << readmeFile, readmeContent >>
  /\ UNCHANGED << walkVars, genVars, aiVars, langVars, qualityVars, joinVars, yamlVars >>

\* Badges and license mention; parseReadme returns.
DetectBadges ==
  /\ readmePc = "badges"
  /\ readmeResult' =
       [readmeResult EXCEPT
          !.badges = Badges(readmeContent),
          !.license = ReadmeLicense(readmeResult.sections)]
  /\ readmePc' = "done"
  /\ UNCHANGED << readmeFile, readmeContent >>
  /\ UNCHANGED << walkVars, genVars, aiVars, langVars, qualityVars, joinVars, yamlVars >>

\* The documents: a title, the lines before the first paragraph, a paragraph,
\* and sections, each a heading line with its body lines.
TitleValues ==
  { <<>>,
    << <<"#", " ", "F", "o", "o">> >> }

PreambleValues ==
  { <<>>,
    << <<>> >>,
    << <<"[", "!", "[", "c", "i", "]", "(", "u", ")", "]", "(", "l", ")">>,
       <<>> >>,
    << <<"!", "[", "l", "o", "g", "o", "]", "(", "u", ")">>,
       <<"V", "e", "r", "s", "i", "o", "n", ":", " ", "1">> >> }

ParagraphValues ==
  { <<>>,
    << <<"A", " ", "s", "m", "a", "l", "l", " ", "t", "o", "o", "l", ".">> >>,
    << <<"A", " ", "*", "*", "s", "m", "a", "l", "l", "*", "*", " ", "t", "o", "o", "l">>,
       <<"b", "u", "i", "l", "t", " ", "f", "o", "r", " ", " ", "d", "e", "v", "s", ".">>,
       <<>>,
       <<"M", "o", "r", "e", ".">> >>,
    << <<"<", "b", "r", ">">> >> }

SectionValues ==
  { << <<"#", "#", " ", "U", "s", "a", "g", "e">>,
       <<"R", "u", "n", " ", "i", "t", ".">> >>,
    << <<"#", "#", " ", " ", "W", "h", "y">>,
       <<>>,
       <<"S", "p", "e", "e", "d", ".">> >>,
    << <<"#", "#", " ", "A", "b", "o", "u", "t", " ">>,
       <<"A", " ", "[", "t", "o", "o", "l", "]", "(", "u", ")", ".">> >>,
    << <<"#", "#", " ", "S", "e", "t", "u", "p">>,
       <<"~", "~", "~">>,
       <<"n", "p", "m", " ", "i">>,
       <<"~", "~", "~">> >>,
    << <<"#", "#", " ", "L", "i", "c", "e", "n", "s", "e">> >>,
    << <<"#", "#", "#", " ", "N", "o", "t", "e", "s">>,
       <<"n">> >> }

RECURSIVE Flatten(_)
Flatten(blocks) == IF blocks = <<>> THEN <<>> ELSE Head(blocks) \o Flatten(Tail(blocks))

ReadmeValues ==
  { JoinLines(title \o preamble \o paragraph \o Flatten(sections)) :
      title \in TitleValues, preamble \in PreambleValues, paragraph \in ParagraphValues,
      sections \in UNION { [1..n -> SectionValues] : n \in 0..MaxSections } }

-----------------------------------------------------------------------------
(* scan: qualityFactors, calculateQualityScore, getScoreTier *)

\* !!value and filter(Boolean) on an optional string: undefined and '' are falsy.
Truthy(value) == value.defined /\ value.text # <<>>

\* const qualityFactors = { ... } from the results of the sub-scans
QualityFactorsOf(sub) ==
  [has_description |-> Truthy(sub.readmeResult.description),
   has_readme |-> sub.readmeResult.exists,
   has_license |-> sub.licenseResult.hasLicense,
   has_tests |-> sub.hasTests,
   has_cicd |-> sub.cicdResult.hasCiCd,
   has_docker |-> sub.hasDocker,
   has_multiple_languages |-> Len(sub.languageResult.languages) >= 2,
   has_structured_readme |-> Len(sub.readmeResult.sections) >= 3]

\* if (factors[name]) score += points
FactorPoints(factors, name, points) == IF factors[name] THEN points ELSE 0

\* Language diversity: >= 3 languages 10 points, else >= 2 languages 5 points.
LanguagePoints(languages) ==
  IF Len(languages) >= 3 THEN 10
  ELSE IF Len(languages) >= 2 THEN 5
  ELSE 0

AllFileTiers(files) ==
  (IF files >= 50 THEN 10 ELSE 0) + (IF files >= 20 THEN 7 ELSE 0)
    + (IF files >= 5 THEN 3 ELSE 0)

\* File count: >= 50 files 10 points, else >= 20 files 7, else >= 5 files 3.
FileCountPoints(files) ==
  IF files >= 50 THEN 10
  ELSE IF files >= 20 THEN 7
  ELSE IF files >= 5 THEN 3
  ELSE 0

\* [who, what, why, where, when, how].filter(Boolean).length
wCount(readme) ==
  Cardinality({ field \in { "who", "what", "why", "where", "when", "how" } :
                  Truthy(readme[field]) })

calculateQualityScore(factors, langResult, readme) ==
  Min(100,
      FactorPoints(factors, "has_readme", 15)
        + FactorPoints(factors, "has_description", 15)
        + FactorPoints(factors, "has_structured_readme", 10)
        + FactorPoints(factors, "has_license", 10)
        + FactorPoints(factors, "has_tests", 10)
        + FactorPoints(factors, "has_cicd", 10)
        + FactorPoints(factors, "has_docker", 5)
        + LanguagePoints(langResult.languages)
        + FileCountPoints(langResult.totalFiles)
        + (IF wCount(readme) >= 3 THEN 5 ELSE 0))

\* The tier names; the strings of the code carry an emoji before the name.
getScoreTier(score) ==
  IF score >= 100 THEN "Trophy"
  ELSE IF score >= 99 THEN "Gold"
  ELSE IF score >= 95 THEN "Silver"
  ELSE IF score >= 85 THEN "Bronze"
  ELSE IF score >= 70 THEN "Green"
  ELSE IF score >= 55 THEN "Yellow"
  ELSE IF score > 0 THEN "Red"
  ELSE "White"

\* scan, after the sub-scans have resolved: the qualityFactors object.
QualityFactors ==
  /\ qualityPc = "factors"
  /\ qualityFactors' = QualityFactorsOf(subScans)
  /\ qualityPc' = "score"
  /\ UNCHANGED << subScans, qualityScore, qualityTier >>
  /\ UNCHANGED << walkVars, genVars, aiVars, langVars, readmeVars, joinVars, yamlVars >>

\* const qualityScore = this.calculateQualityScore(...)
CalculateQualityScore ==
  /\ qualityPc = "score"
  /\ qualityScore' =
       calculateQualityScore(qualityFactors, subScans.languageResult, subScans.readmeResult)
  /\ qualityPc' = "tier"
  /\ UNCHANGED << subScans, qualityFactors, qualityTier >>
  /\ UNCHANGED << walkVars, genVars, aiVars, langVars, readmeVars, joinVars, yamlVars >>

\* const qualityTier = this.getScoreTier(qualityScore)
GetScoreTier ==
  /\ qualityPc = "tier"
  /\ qualityTier' = getScoreTier(qualityScore)
  /\ qualityPc' = "done"
  /\ UNCHANGED << subScans, qualityFactors, qualityScore >>
  /\ UNCHANGED << walkVars, genVars, aiVars, langVars, readmeVars, joinVars, yamlVars >>

\* Results of scanLanguages: the first n of three languages among `files`
\* counted files (the other counted files are of config-only languages).
ThreeLanguages ==
  << [language |-> "Rust", bytes |-> 60, files |-> 1],
     [language |-> "Go", bytes |-> 30, files |-> 1],
     [language |-> "C", bytes |-> 10, files |-> 1] >>

LanguageResultOf(n, files) ==
  LET counted_ == SubSeq(ThreeLanguages, 1, n)
      languages == [i \in 1..n |->
                      [language |-> counted_[i].language,
                       bytes |-> counted_[i].bytes,
                       percentage |-> Percentage(counted_[i].bytes, SumBytes(counted_)),
                       fileCount |-> counted_[i].files]]
  IN  [languages |-> languages,
       languageStrings |-> [i \in 1..n |->
                              [language |-> languages[i].language,
                               tenths |-> ToFixed1(languages[i].percentage)]],
       primaryLanguage |-> IF n > 0 THEN languages[1].language ELSE Unknown,
       totalFiles |-> files,
       totalBytes |-> SumBytes(counted_)]

FileCountValues == { 0, 1, 2, 3, 4, 5, 19, 20, 49, 50 }

LanguageResultValues ==
  { LanguageResultOf(n, files) : n \in 0..3, files \in FileCountValues } \
    { LanguageResultOf(n, files) : n \in 1..3, files \in 0..2 }

\* Results of parseReadme: no README; '# Foo'; '# Foo', blank, 'A small tool.';
\* '# Foo', blank, '<br>'; a title with sections Usage and Why; a title, a
\* paragraph and sections Usage, Why and License.
Chars_small_tool == << "A", " ", "s", "m", "a", "l", "l", " ", "t", "o", "o", "l", "." >>
Chars_run_it == << "R", "u", "n", " ", "i", "t", "." >>
Chars_speed == << "S", "p", "e", "e", "d", "." >>

TitleOnlyContext == [NewReadmeContext EXCEPT !.name = Defined(<< "F", "o", "o" >>)]

UsageWhySections ==
  << [key |-> << "u", "s", "a", "g", "e" >>, body |-> Chars_run_it],
     [key |-> << "w", "h", "y" >>, body |-> Chars_speed] >>

ReadmeResultValues ==
  { NoReadmeContext,
    TitleOnlyContext,
    [TitleOnlyContext EXCEPT !.description = Defined(Chars_small_tool),
                             !.what = Defined(Chars_small_tool)],
    [TitleOnlyContext EXCEPT !.description = Defined(<<>>)],
    [TitleOnlyContext EXCEPT !.sections = UsageWhySections,
                             !.why = Defined(Chars_speed),
                             !.how = Defined(Chars_run_it)],
    [TitleOnlyContext EXCEPT !.description = Defined(Chars_small_tool),
                             !.sections = UsageWhySections \o
                               << [key |-> << "l", "i", "c", "e", "n", "s", "e" >>,
                                   body |-> << "M", "I", "T" >>] >>,
                             !.what = Defined(Chars_small_tool),
                             !.why = Defined(Chars_speed),
                             !.how = Defined(Chars_run_it),
                             !.license = Defined(<< "M", "I", "T" >>)] }

-----------------------------------------------------------------------------
(* generateFafContent: slots_filled of context_quality *)

\* The slot fields of fafData (faf-generator-championship.ts 860-865).
SlotFields(totalFilled, totalApplicable) ==
  [slotBasedPercentage |-> SlotBasedPercentage(totalFilled, totalApplicable),
   totalSlots |-> totalApplicable,
   naSlots |-> NaSlotCount(totalApplicable)]

DefaultTotalSlots == 21

\* projectData.totalSlots || 21
TotalSlotsCount(data) == IF data.totalSlots # 0 THEN data.totalSlots ELSE DefaultTotalSlots

FlooredSlotsCount(percentage, totalSlotsCount) == (percentage * totalSlotsCount) \div 100

\* Math.round((projectData.slotBasedPercentage / 100) * totalSlotsCount)
FilledSlotsCount(percentage, totalSlotsCount) == Round(percentage * totalSlotsCount, 100)

\* `${filledSlotsCount}/${totalSlotsCount} (${projectData.slotBasedPercentage}%)`
SlotsFilled(data) ==
  [filled |-> FilledSlotsCount(data.slotBasedPercentage, TotalSlotsCount(data)),
   total |-> TotalSlotsCount(data),
   percentage |-> data.slotBasedPercentage]

NoProjectData == [slotBasedPercentage |-> -1]
NoContextQuality == [filled |-> -1]

\* The generator builds the data for generateFafContent.
BuildFafData ==
  /\ yamlPc = "build"
  /\ projectData' = SlotFields(slotTotals.totalFilled, slotTotals.totalApplicable)
  /\ yamlPc' = "format"
  /\ UNCHANGED << slotTotals, contextQuality >>
  /\ UNCHANGED << walkVars, genVars, aiVars, scanVars >>

\* generateFafContent reconstructs the filled count for slots_filled.
GenerateFafContent ==
  /\ yamlPc = "format"
  /\ contextQuality' = SlotsFilled(projectData)
  /\ yamlPc' = "done"
  /\ UNCHANGED << slotTotals, projectData >>
  /\ UNCHANGED << walkVars, genVars, aiVars, scanVars >>

YamlIdle ==
  /\ yamlPc = "idle" /\ slotTotals = [totalFilled |-> 0, totalApplicable |-> 0]
  /\ projectData = NoProjectData /\ contextQuality = NoContextQuality

-----------------------------------------------------------------------------
(* scan: the concurrent sub-scans and their join *)

\* A project tree: the entries of the root directory, the paths that exist
\* below them, the content of README.md and the phrases the upper-cased
\* license file contains.  Every directory of these trees is empty or pruned
\* by the walk, so the walk hands the callback the files of the root.
Entry(name, kind, size) == [name |-> name, kind |-> kind, size |-> size]

Chars_README_md == <<"R", "E", "A", "D", "M", "E", ".", "m", "d">>
Chars_LICENSE == <<"L", "I", "C", "E", "N", "S", "E">>
Chars_Dockerfile == <<"D", "o", "c", "k", "e", "r", "f", "i", "l", "e">>
Chars_tests == <<"t", "e", "s", "t", "s">>
Chars_dot_github == <<".", "g", "i", "t", "h", "u", "b">>

Chars_full_readme ==
  <<"#", " ", "F", "o", "o", "\n",
     "\n", "A", " ", "s", "m", "a", "l", "l", " ", "t", "o", "o", "l", ".", "\n",
     "#", "#", " ", "U", "s", "a", "g", "e", "\n",
     "R", "u", "n", " ", "i", "t", ".", "\n",
     "#", "#", " ", "W", "h", "y", "\n",
     "S", "p", "e", "e", "d", ".", "\n",
     "#", "#", " ", "L", "i", "c", "e", "n", "s", "e", "\n",
     "M", "I", "T">>

EmptyTree == [entries |-> {}, nested |-> {}, readme |-> <<>>, licensePhrases |-> {}]

\* Two languages with the same number of bytes, and GitHub workflows.
TiedTree ==
  [entries |-> { Entry(Chars_main_cpp, "file", 20), Entry(Chars_app_js, "file", 20),
                 Entry(Chars_dot_github, "dir", 0) },
   nested |-> { ".github/workflows" },
   readme |-> <<>>, licensePhrases |-> {}]

\* A documented project with a license and a tests directory.
FullTree ==
  [entries |-> { Entry(Chars_app_js, "file", 40),
                 Entry(Chars_README_md, "file", Len(Chars_full_readme)),
                 Entry(Chars_LICENSE, "file", 10), Entry(Chars_tests, "dir", 0) },
   nested |-> {},
   readme |-> Chars_full_readme,
   licensePhrases |-> { "PERMISSION IS HEREBY GRANTED" }]

DockerTree ==
  [entries |-> { Entry(Chars_Dockerfile, "file", 5), Entry(Chars_main_c, "file", 10) },
   nested |-> {}, readme |-> <<>>, licensePhrases |-> {}]

TreeValues == { EmptyTree, TiedTree, FullTree, DockerTree }

\* The orders in which readdir may list a set of entries.
Enumerations(entries) ==
  { order \in [1..Cardinality(entries) -> entries] : Range(order) = entries }

\* fs.access(path.join(projectRoot, p)) resolves
PathExists(tree, p) == (\E e \in tree.entries : Str(e.name) = p) \/ p \in tree.nested

\* The first path of a list that passes a test (0 : none does).
FirstIndex(candidates, passing) ==
  IF \E i \in DOMAIN candidates : candidates[i] \in passing
    THEN CHOOSE i \in DOMAIN candidates :
           candidates[i] \in passing /\ \A j \in 1..(i - 1) : candidates[j] \notin passing
    ELSE 0

\* identifyLicense, on the phrases the upper-cased content includes.
identifyLicense(phrases) ==
  IF "MIT LICENSE" \in phrases \/ "PERMISSION IS HEREBY GRANTED" \in phrases THEN "MIT"
  ELSE IF "APACHE LICENSE" \in phrases /\ "VERSION 2.0" \in phrases THEN "Apache-2.0"
  ELSE IF "GNU GENERAL PUBLIC LICENSE" \in phrases /\ "VERSION 3" \in phrases THEN "GPL-3.0"
  ELSE IF "GNU GENERAL PUBLIC LICENSE" \in phrases /\ "VERSION 2" \in phrases THEN "GPL-2.0"
  ELSE IF "GNU LESSER GENERAL PUBLIC" \in phrases THEN "LGPL"
  ELSE IF "BSD 2-CLAUSE" \in phrases \/ "SIMPLIFIED BSD" \in phrases THEN "BSD-2-Clause"
  ELSE IF "BSD 3-CLAUSE" \in phrases \/ "NEW BSD" \in phrases THEN "BSD-3-Clause"
  ELSE IF "ISC LICENSE" \in phrases THEN "ISC"
  ELSE IF "MOZILLA PUBLIC LICENSE" \in phrases THEN "MPL-2.0"
  ELSE IF "UNLICENSE" \in phrases \/ "PUBLIC DOMAIN" \in phrases THEN "Unlicense"
  ELSE IF "CREATIVE COMMONS" \in phrases THEN "CC"
  ELSE "Custom"

licenseFiles == << "LICENSE", "LICENSE.md", "LICENSE.txt", "LICENCE", "LICENCE.md", "COPYING" >>

\* detectLicense: the first license file that can be read.
detectLicense(tree) ==
  IF FirstIndex(licenseFiles, { Str(e.name) : e \in { f \in tree.entries : f.kind = "file" } }) > 0
    THEN [hasLicense |-> TRUE, licenseName |-> identifyLicense(tree.licensePhrases)]
    ELSE [hasLicense |-> FALSE, licenseName |-> None]

ciChecks ==
  << << ".github/workflows", "GitHub Actions" >>, << ".gitlab-ci.yml", "GitLab CI" >>,
     << "Jenkinsfile", "Jenkins" >>, << ".circleci/config.yml", "CircleCI" >>,
     << ".travis.yml", "Travis CI" >>, << "azure-pipelines.yml", "Azure Pipelines" >>,
     << "bitbucket-pipelines.yml", "Bitbucket Pipelines" >>, << ".drone.yml", "Drone CI" >> >>

\* detectCiCd: the platform of the first path that exists.
detectCiCd(tree) ==
  LET hit == FirstIndex([i \in DOMAIN ciChecks |-> ciChecks[i][1]],
                        { p \in { ciChecks[i][1] : i \in DOMAIN ciChecks } : PathExists(tree, p) })
  IN  IF hit > 0 THEN [hasCiCd |-> TRUE, platform |-> ciChecks[hit][2]]
      ELSE [hasCiCd |-> FALSE, platform |-> None]

testDirs == { "test", "tests", "__tests__", "spec", "specs", "test_", "testing" }

testConfigs ==
  { "jest.config.js", "jest.config.ts", "vitest.config.ts", "pytest.ini", "setup.cfg",
    "tox.ini", "cypress.config.js", "playwright.config.ts", ".rspec" }

\* detectTests: a test directory, or else a test configuration file.
detectTests(tree) ==
  \/ \E e \in tree.entries : e.kind = "dir" /\ Str(e.name) \in testDirs
  \/ \E p \in testConfigs : PathExists(tree, p)

dockerFiles == { "Dockerfile", "docker-compose.yml", "docker-compose.yaml", ".dockerignore" }

detectDocker(tree) == \E p \in dockerFiles : PathExists(tree, p)

\* String.prototype.localeCompare on names made of letters and dots: letters
\* compare without regard to case and after the dot; names that differ only
\* in case compare lower case first.
Alphabet ==
  << ".", "a", "b", "c", "d", "e", "f", "g", "h", "i", "j", "k", "l", "m",
     "n", "o", "p", "q", "r", "s", "t", "u", "v", "w", "x", "y", "z" >>

CharRank(c) == CHOOSE i \in DOMAIN Alphabet : Alphabet[i] = LowerChar(c)

RECURSIVE PrimaryCompare(_, _)
PrimaryCompare(a, b) ==
  IF a = <<>> /\ b = <<>> THEN 0
  ELSE IF a = <<>> THEN -1
  ELSE IF b = <<>> THEN 1
  ELSE IF CharRank(Head(a)) < CharRank(Head(b)) THEN -1
  ELSE IF CharRank(Head(a)) > CharRank(Head(b)) THEN 1
  ELSE PrimaryCompare(Tail(a), Tail(b))

RECURSIVE CaseCompare(_, _)
CaseCompare(a, b) ==
  IF a = <<>> THEN 0
  ELSE IF Head(a) = Head(b) THEN CaseCompare(Tail(a), Tail(b))
  ELSE IF Head(a) = LowerChar(Head(a)) THEN -1
  ELSE 1

localeCompare(a, b) ==
  IF PrimaryCompare(a, b) # 0 THEN PrimaryCompare(a, b) ELSE CaseCompare(a, b)

\* results.sort((a, b) => a.path.localeCompare(b.path)): stable, ascending.
RECURSIVE InsertByPath(_, _)
InsertByPath(sorted, e) ==
  IF sorted = <<>> THEN << e >>
  ELSE IF localeCompare(Head(sorted).path, e.path) <= 0
    THEN << Head(sorted) >> \o InsertByPath(Tail(sorted), e)
    ELSE << e >> \o sorted

RECURSIVE SortByPathFrom(_, _)
SortByPathFrom(sorted, rest) ==
  IF rest = <<>> THEN sorted
  ELSE SortByPathFrom(InsertByPath(sorted, Head(rest)), Tail(rest))

SortByPath(results) == SortByPathFrom(<<>>, results)

\* Hidden entries are left out, except .github and .devops.
IsListed(entry) ==
  ~(Head(entry.name) = "." /\ Str(entry.name) \notin { ".github", ".devops" })

\* scanTopLevelStructure on the entries in the order readdir lists them.
scanTopLevelStructure(dirEntries) ==
  LET listed == SelectSeq(dirEntries, IsListed)
  IN  SortByPath([i \in DOMAIN listed |->
                    [path |-> listed[i].name,
                     type |-> listed[i].kind,
                     size |-> IF listed[i].kind = "dir" THEN 0 ELSE listed[i].size]])

IsFileEntry(entry) == entry.kind = "file"

\* The files the walk of the root hands to the callback, in readdir order.
FilesOf(dirEntries) ==
  LET files == SelectSeq(dirEntries, IsFileEntry)
  IN  [i \in DOMAIN files |-> Sized(files[i].name, files[i].size)]

\* The sub-scans scan starts together and awaits with Promise.all.
ConcurrentSubScans == { "languages", "readme", "license", "structure", "cicd" }

\* The promise of a sub-scan has resolved.
Resolved(task) ==
  IF task = "languages" THEN langPc = "done"
  ELSE IF task = "readme" THEN readmePc = "done"
  ELSE probeResults[task] # Null

PromiseAnyResolved == \E task \in ConcurrentSubScans : task \in Range(settled)

\* Promise.all resolves once every promise of the array has.
PromiseAllResolved == \A task \in ConcurrentSubScans : task \in Range(settled)

NoProbeResults == [task \in { "license", "structure", "cicd" } |-> Null]

\* scan is called: the five sub-scans are started, each running up to its
\* first await, and scan awaits Promise.all.
ScanStart ==
  /\ scanPc = "call"
  /\ langPc' = "walking"
  /\ readmePc' = "read"
  /\ scanPc' = "all"
  /\ UNCHANGED << walkedFiles, langIdx, languageBytes, totalFiles, totalBytes, counted,
                  languageScan >>
  /\ UNCHANGED << readmeFile, readmeContent, readmeResult >>
  /\ UNCHANGED << projectTree, listing, settled, probeResults, localScanResult >>
  /\ UNCHANGED << walkVars, genVars, aiVars, qualityVars, yamlVars >>

\* One of detectLicense, scanTopLevelStructure and detectCiCd resolves.
Probe(task, result) ==
  /\ scanPc = "all"
  /\ probeResults[task] = Null
  /\ probeResults' = [probeResults EXCEPT ![task] = result]
  /\ UNCHANGED << scanPc, projectTree, listing, settled, localScanResult >>
  /\ UNCHANGED << walkVars, genVars, aiVars, langVars, readmeVars, qualityVars, yamlVars >>

DetectLicense == Probe("license", detectLicense(projectTree))

ScanTopLevelStructure == Probe("structure", scanTopLevelStructure(listing))

DetectCiCd == Probe("cicd", detectCiCd(projectTree))

\* Promise.all takes note of a resolved promise.
Settle ==
  /\ scanPc = "all"
  /\ \E task \in ConcurrentSubScans :
       /\ Resolved(task)
       /\ task \notin Range(settled)
       /\ settled' = Append(settled, task)
  /\ UNCHANGED << scanPc, projectTree, listing, probeResults, localScanResult >>
  /\ UNCHANGED << walkVars, genVars, aiVars, langVars, readmeVars, qualityVars, yamlVars >>

\* Promise.all resolves: the five results are bound, and detectTests is called.
ScanJoin ==
  /\ scanPc = "all"
  /\ PromiseAllResolved
  /\ subScans' = [languageResult |-> languageScan,
                  readmeResult |-> readmeResult,
                  licenseResult |-> probeResults["license"],
                  structureResult |-> probeResults["structure"],
                  cicdResult |-> probeResults["cicd"],
                  hasTests |-> Null,
                  hasDocker |-> Null]
  /\ scanPc' = "tests"
  /\ UNCHANGED << qualityPc, qualityFactors, qualityScore, qualityTier >>
  /\ UNCHANGED << projectTree, listing, settled, probeResults, localScanResult >>
  /\ UNCHANGED << walkVars, genVars, aiVars, langVars, readmeVars, yamlVars >>

\* const hasTests = await this.detectTests()
DetectTests ==
  /\ scanPc = "tests"
  /\ subScans' = [subScans EXCEPT !.hasTests = detectTests(projectTree)]
  /\ scanPc' = "docker"
  /\ UNCHANGED << qualityPc, qualityFactors, qualityScore, qualityTier >>
  /\ UNCHANGED << projectTree, listing, settled, probeResults, localScanResult >>
  /\ UNCHANGED << walkVars, genVars, aiVars, langVars, readmeVars, yamlVars >>

\* const hasDocker = await this.detectDocker(); the quality scoring follows.
DetectDocker ==
  /\ scanPc = "docker"
  /\ subScans' = [subScans EXCEPT !.hasDocker = detectDocker(projectTree)]
  /\ scanPc' = "quality"
  /\ qualityPc' = "factors"
  /\ UNCHANGED << qualityFactors, qualityScore, qualityTier >>
  /\ UNCHANGED << projectTree, listing, settled, probeResults, localScanResult >>
  /\ UNCHANGED << walkVars, genVars, aiVars, langVars, readmeVars, yamlVars >>

\* return { ... }
ScanReturn ==
  /\ scanPc = "quality"
  /\ qualityPc = "done"
  /\ localScanResult' =
       [languages |-> subScans.languageResult.languages,
        languageStrings |-> subScans.languageResult.languageStrings,
        primaryLanguage |-> subScans.languageResult.primaryLanguage,
        readme |-> subScans.readmeResult,
        hasLicense |-> subScans.licenseResult.hasLicense,
        licenseName |-> subScans.licenseResult.licenseName,
        hasTests |-> subScans.hasTests,
        hasCiCd |-> subScans.cicdResult.hasCiCd,
        cicdPlatform |-> subScans.cicdResult.platform,
        hasDocker |-> subScans.hasDocker,
        totalFiles |-> subScans.languageResult.totalFiles,
        totalBytes |-> subScans.languageResult.totalBytes,
        topLevelStructure |-> subScans.structureResult,
        qualityScore |-> qualityScore,
        qualityTier |-> qualityTier,
        qualityFactors |-> qualityFactors]
  /\ scanPc' = "done"
  /\ UNCHANGED << projectTree, listing, settled, probeResults >>
  /\ UNCHANGED << walkVars, genVars, aiVars, langVars, readmeVars, qualityVars, yamlVars >>

JoinIdle ==
  /\ scanPc = "idle" /\ projectTree = EmptyTree /\ listing = <<>> /\ settled = <<>>
  /\ probeResults = NoProbeResults /\ localScanResult = Null

ReadmeIdle ==
  /\ readmePc = "idle" /\ readmeFile = "missing" /\ readmeContent = <<>>
  /\ readmeResult = Null

LangIdle ==
  /\ langPc = "idle" /\ walkedFiles = <<>> /\ langIdx = 1 /\ languageBytes = <<>>
  /\ totalFiles = 0 /\ totalBytes = 0 /\ counted = {} /\ languageScan = Null

QualityIdle ==
  /\ qualityPc = "idle" /\ subScans = Null /\ qualityFactors = Null
  /\ qualityScore = 0 /\ qualityTier = None

ScanIdle == LangIdle /\ ReadmeIdle /\ QualityIdle /\ JoinIdle

-----------------------------------------------------------------------------
(* Specifications *)

WalkIdle ==
  /\ fsId = "deep" /\ unreadable = {} /\ unstatable = {}
  /\ stack = <<>> /\ visited = <<>> /\ readLog = <<>> /\ walkPc = "idle"

GenIdle ==
  /\ pc = "idle"
  /\ options = Opt(Root("string", "/proj"), NoQuick)
  /\ scanResult = EmptyScan
  /\ frameworkResult = Null
  /\ loaded = BareProject
  /\ aiResult = Null
  /\ contextSlotsFilled = NoSlots
  /\ inferredType = None
  /\ scoring = NoScoring
  /\ fafData = NoFafData
  /\ thrown = None

\* ---- the walk of one fixture tree
InitWalk ==
  /\ YamlIdle
  /\ fsId \in Fixtures
  /\ unreadable \in IF fsId = "mixed" THEN SUBSET MayBeUnreadable ELSE { {} }
  /\ unstatable \in IF fsId = "mixed" THEN SUBSET MayBeUnstatable ELSE { {} }
  /\ stack = <<>> /\ visited = <<>> /\ readLog = <<>> /\ walkPc = "idle"
  /\ GenIdle /\ AiIdle /\ ScanIdle

NextWalk == WalkStart \/ WalkReaddir \/ WalkEntry \/ WalkReturn

SpecWalk == InitWalk /\ [][NextWalk]_vars

SpecWalkFair == SpecWalk /\ WF_vars(NextWalk)

WalkTerminates == <>(walkPc = "done")

\* ---- one run of generateFafFromProject
Init ==
  /\ YamlIdle
  /\ WalkIdle /\ AiIdle /\ ScanIdle
  /\ pc = "validate"
  /\ options \in OptionValues
  /\ scanResult = EmptyScan
  /\ frameworkResult = Null
  /\ loaded = BareProject
  /\ aiResult = Null
  /\ contextSlotsFilled = NoSlots
  /\ inferredType = None
  /\ scoring = NoScoring
  /\ fafData = NoFafData
  /\ thrown = None

Next ==
  \/ Validate \/ Scan \/ DetectFramework \/ Load
  \/ QuickMode \/ ScannerFill \/ FrameworkFill
  \/ AiBlock \/ AiStart \/ AnthropicResponse \/ OpenRouterResponse \/ AiJoin
  \/ AiFill \/ ReadmeFill \/ SignalFill \/ FrameworkFallback \/ FabFill
  \/ RelentlessFill \/ RustCli \/ NodeCli \/ Bun \/ ManifestFill
  \/ InferType \/ Score

Spec == Init /\ [][Next]_vars

\* Every await of the run is eventually resumed.
SpecFair == Spec /\ WF_vars(Next)

\* A run whose enrichment failed still ends with a score.
FailedEnrichmentStillScores == (aiOutcome \in FailureOutcomes) ~> (pc = "done")

\* ---- inferProjectType on its own
AiHints ==
  { None, "cli", "web-app", "tool", "framework", "nextjs", "banana", "constructor" }

TypeFrameworks ==
  { Null,
    Detection(<<>>, None, None),
    Detection(Chars_Unknown, None, None),
    Detection(Chars_React, "JavaScript", "npm"),
    Detection(Chars_ReactNative, "JavaScript", "npm"),
    Detection(Chars_Express, None, None),
    Detection(Chars_Django, "Python", "pip") }

TypeLanguages == { "Unknown", "C++", "Rust", "TypeScript", "Python" }

OriginalTypes == { None, "cli", "python-generic", "latest-idea" }

InitType ==
  /\ YamlIdle
  /\ WalkIdle /\ AiIdle /\ ScanIdle
  /\ pc = "infer"
  /\ options \in { [Opt(Root("string", "/proj"), NoQuick) EXCEPT !.projectType = t] :
                     t \in OriginalTypes }
  /\ scanResult \in { [EmptyScan EXCEPT !.primaryLanguage = l] : l \in TypeLanguages }
  /\ frameworkResult \in TypeFrameworks
  /\ contextSlotsFilled \in { [NoSlots EXCEPT !["_ai_project_type"] = h] : h \in AiHints }
  /\ loaded = BareProject
  /\ aiResult = Null
  /\ inferredType = None
  /\ scoring = NoScoring
  /\ fafData = NoFafData
  /\ thrown = None

NextType == InferType

SpecType == InitType /\ [][NextType]_vars

\* ---- the scoring block on its own, as a function of the type, the filled
\* ---- slots and the bonuses
ScoreTypes == DOMAIN TYPE_APPLICABLE_CATEGORIES \cup { "unrecognized", "constructor" }

\* The first i technical and the first j human slots are filled.
FilledPrefix(i, j) ==
  [k \in SlotKeys |->
     IF \/ \E n \in 1..i : technicalSlots[n] = k
        \/ \E n \in 1..j : humanSlots[n] = k
       THEN "filled" ELSE None]

FilledValues ==
  { FilledPrefix(i, j) : i \in 0..Len(technicalSlots), j \in { 0, 3, Len(humanSlots) } }

MetricsValues ==
  { Metrics("MINIMAL", 0), Metrics("MINIMAL", 40), Metrics("BASIC", 41),
    Metrics("GOOD", 61), Metrics("PROFESSIONAL", 81), Metrics("EXCEPTIONAL", 90) }

TsValues == { Null, [strictMode |-> FALSE], [strictMode |-> TRUE] }

InitScore ==
  /\ YamlIdle
  /\ WalkIdle /\ AiIdle /\ ScanIdle
  /\ pc = "score"
  /\ options = Opt(Root("string", "/proj"), NoQuick)
  /\ scanResult = EmptyScan
  /\ frameworkResult = Null
  /\ loaded \in { [BareProject EXCEPT !.fabAnalysis.qualityMetrics = m, !.tsContext = t] :
                    m \in MetricsValues, t \in TsValues }
  /\ aiResult = Null
  /\ contextSlotsFilled \in FilledValues
  /\ inferredType \in ScoreTypes
  /\ scoring = NoScoring
  /\ fafData = NoFafData
  /\ thrown = None

NextScore == Score

SpecScore == InitScore /\ [][NextScore]_vars

\* ---- analyzeReadmeWithAI on its own, with time passing
InitAI ==
  /\ YamlIdle
  /\ WalkIdle /\ GenIdle /\ ScanIdle
  /\ aiPc = "called"
  /\ aiEnv \in EnvValues
  /\ aiModel = 0 /\ aiRequests = <<>> /\ aiRet = Null /\ aiOutcome = None /\ aiClock = 0

NextAI == AiStart \/ AnthropicResponse \/ OpenRouterResponse \/ Tick

SpecAI == InitAI /\ [][NextAI]_vars

\* ---- scanLanguages on the files of one walk
InitLang ==
  /\ YamlIdle
  /\ WalkIdle /\ GenIdle /\ AiIdle /\ ReadmeIdle /\ QualityIdle /\ JoinIdle
  /\ langPc = "walking"
  /\ walkedFiles \in UNION { [1..n -> FileValues] : n \in 0..MaxFiles }
  /\ langIdx = 1 /\ languageBytes = <<>>
  /\ totalFiles = 0 /\ totalBytes = 0 /\ counted = {} /\ languageScan = Null

NextLang == ClassifyFile \/ Aggregate

SpecLang == InitLang /\ [][NextLang]_vars

\* ---- parseReadme on one README
InitReadme ==
  /\ YamlIdle
  /\ WalkIdle /\ GenIdle /\ AiIdle /\ LangIdle /\ QualityIdle /\ JoinIdle
  /\ readmePc = "read"
  /\ \/ readmeFile = "ok" /\ readmeContent \in ReadmeValues
     \/ readmeFile \in { "missing", "unreadable" } /\ readmeContent = <<>>
  /\ readmeResult = Null

NextReadme == ReadReadme \/ ParseTitle \/ ParseSections \/ ExtractFields \/ DetectBadges

SpecReadme == InitReadme /\ [][NextReadme]_vars

\* ---- the quality score of scan on the results of the sub-scans
InitQuality ==
  /\ YamlIdle
  /\ WalkIdle /\ GenIdle /\ AiIdle /\ LangIdle /\ ReadmeIdle /\ JoinIdle
  /\ qualityPc = "factors"
  /\ subScans \in
       [languageResult : LanguageResultValues,
        readmeResult : ReadmeResultValues,
        structureResult : { <<>> },
        licenseResult : { [hasLicense |-> FALSE, licenseName |-> None],
                          [hasLicense |-> TRUE, licenseName |-> "MIT"] },
        cicdResult : { [hasCiCd |-> FALSE, platform |-> None],
                       [hasCiCd |-> TRUE, platform |-> "GitHub Actions"] },
        hasTests : BOOLEAN,
        hasDocker : BOOLEAN]
  /\ qualityFactors = Null /\ qualityScore = 0 /\ qualityTier = None

NextQuality == QualityFactors \/ CalculateQualityScore \/ GetScoreTier

SpecQuality == InitQuality /\ [][NextQuality]_vars

\* ---- one call of scan on a project tree, the sub-scans interleaved
InitScan ==
  /\ YamlIdle
  /\ WalkIdle /\ GenIdle /\ AiIdle /\ QualityIdle
  /\ scanPc = "call"
  /\ projectTree \in TreeValues
  /\ listing \in Enumerations(projectTree.entries)
  /\ settled = <<>> /\ probeResults = NoProbeResults /\ localScanResult = Null
  /\ langPc = "idle"
  /\ walkedFiles = FilesOf(listing)
  /\ langIdx = 1 /\ languageBytes = <<>>
  /\ totalFiles = 0 /\ totalBytes = 0 /\ counted = {} /\ languageScan = Null
  /\ readmePc = "idle"
  /\ readmeFile = IF PathExists(projectTree, "README.md") THEN "ok" ELSE "missing"
  /\ readmeContent = projectTree.readme
  /\ readmeResult = Null

NextScan ==
  \/ ScanStart
  \/ ClassifyFile \/ Aggregate
  \/ ReadReadme \/ ParseTitle \/ ParseSections \/ ExtractFields \/ DetectBadges
  \/ DetectLicense \/ ScanTopLevelStructure \/ DetectCiCd
  \/ Settle \/ ScanJoin
  \/ DetectTests \/ DetectDocker
  \/ QualityFactors \/ CalculateQualityScore \/ GetScoreTier
  \/ ScanReturn

SpecScan == InitScan /\ [][NextScan]_vars

\* ---- the formatting of slots_filled on its own, for every count of filled
\* ---- slots among every count of applicable slots
InitYaml ==
  /\ WalkIdle /\ GenIdle /\ AiIdle /\ ScanIdle
  /\ yamlPc = "build"
  /\ slotTotals \in { [totalFilled |-> f, totalApplicable |-> t] :
                        t \in 0..MaxApplicable, f \in 0..MaxApplicable }
  /\ slotTotals.totalFilled <= slotTotals.totalApplicable
  /\ projectData = NoProjectData
  /\ contextQuality = NoContextQuality

NextYaml == BuildFafData \/ GenerateFafContent

SpecYaml == InitYaml /\ [][NextYaml]_vars

-----------------------------------------------------------------------------
(* Claims about the walk *)

\* C1 (as claimed): the walk hands at most MAX_FILES files to the callback
\* and reads no directory deeper than MAX_DEPTH.
C1_WalkBounded ==
  /\ Len(visited) <= MAX_FILES
  /\ \A i \in DOMAIN stack : stack[i].phase = "loop" => i - 1 <= MAX_DEPTH

Without(fs, gone) ==
  [n \in DOMAIN fs |->
     [fs[n] EXCEPT !.entries = SelectSeq(fs[n].entries, LAMBDA e : e \notin gone)]]

\* Whether a directory name is pruned: a skip-set name or a leading dot.
IsPrunedName(name) == JoinDots(name) \in SKIP_DIRS \/ (Len(name) > 1 /\ name[1] = "")

\* The files a walk of directory n hands to the callback when nothing fails:
\* depth first, in listing order, links left alone, pruned directories left
\* out.
RECURSIVE FilesInOrder(_, _)
FilesInOrder(fs, n) ==
  LET RECURSIVE Listing(_)
      Listing(entries) ==
        IF entries = <<>> THEN <<>>
        ELSE LET e == Head(entries)
                 here == IF fs[e].kind = "file" THEN <<e>>
                         ELSE IF fs[e].kind = "dir" /\ ~IsPrunedName(fs[e].name)
                           THEN FilesInOrder(fs, e)
                         ELSE <<>>
             IN  here \o Listing(Tail(entries))
  IN  Listing(fs[n].entries)

IsPrefix(s, t) == Len(s) <= Len(t) /\ SubSeq(t, 1, Len(s)) = s

\* What the walk visits if the unreadable directories and un-stat-able files
\* were not there at all.
VisitedAsIfAbsent ==
  IF 0 \in unreadable THEN <<>>
  ELSE FilesInOrder(Without(Fs(fsId), unreadable \cup unstatable), 0)

\* C11: an unreadable directory or un-stat-able file is treated as absent and
\* never ends the walk: the files visited are those of the same tree without
\* the failing entries, in the same order, and the walk runs to its end.
C11_UnreadableIsAbsent ==
  /\ IsPrefix(visited, VisitedAsIfAbsent)
  /\ walkPc = "done" => visited = VisitedAsIfAbsent
  /\ \A i \in DOMAIN readLog : readLog[i] \notin unreadable
  /\ walkPc \in { "idle", "walking", "done" }
  /\ walkPc = "walking" => ENABLED (WalkReaddir \/ WalkEntry \/ WalkReturn)

C11_Witness ==
  /\ walkPc = "done"
  /\ fsId = "mixed"
  /\ unreadable = { 4, 13 } /\ unstatable = { 6 }
  /\ visited = << 10, 11, 5, 7 >>

\* The nodes beneath directory n (links not followed).
RECURSIVE Beneath(_, _)
Beneath(fs, n) ==
  LET children == IF fs[n].kind = "dir" THEN Range(fs[n].entries) ELSE {}
  IN  children \cup UNION { Beneath(fs, c) : c \in children }

\* The pruned directories of the tree under the root.
PrunedDirs(fs) ==
  { d \in Beneath(fs, 0) : fs[d].kind = "dir" /\ IsPrunedName(fs[d].name) }

\* C12: a directory with a skip-set name or a leading dot is never read, and
\* nothing beneath it, at any depth, is read or handed to the callback.
C12_SkippedDirectoriesArePruned ==
  LET fs == Fs(fsId)
  IN  \A d \in PrunedDirs(fs) :
        /\ d \notin Range(readLog)
        /\ \A i \in DOMAIN stack : stack[i].dir # d
        /\ \A n \in Beneath(fs, d) :
             /\ n \notin Range(visited)
             /\ n \notin Range(readLog)
             /\ \A i \in DOMAIN stack : stack[i].dir # n

C12_Witness ==
  /\ walkPc = "done"
  /\ fsId = "pruned"
  /\ PrunedDirs(Fs(fsId)) = { 2, 3 }
  /\ visited = << 8, 5 >>
  /\ readLog = << 0, 1, 4 >>

-----------------------------------------------------------------------------
(* Claims about the slot fills *)

\* C3: once a slot holds a value, no later step of the generation changes it
\* (first non-empty wins, in source priority order).
C3_FirstNonEmptyWins ==
  [][\A slot \in SlotKeys :
       contextSlotsFilled[slot] # None =>
         contextSlotsFilled'[slot] = contextSlotsFilled[slot]]_vars

-----------------------------------------------------------------------------
(* Claims about the scoring block *)

\* The categories the type table gives a type, all five for a type it lacks.
CategorySetOf(type) ==
  IF type \in DOMAIN TYPE_APPLICABLE_CATEGORIES
    THEN Range(TYPE_APPLICABLE_CATEGORIES[type])
    ELSE { "project", "frontend", "backend", "universal", "human" }

ApplicableSet(type) ==
  { slot \in Range(AllSlots) : SLOT_CATEGORY_MAP[slot] \in CategorySetOf(type) }

FilledSet == { slot \in Range(AllSlots) : contextSlotsFilled[slot] # None }

\* Unscaled points of a set of slots: 4 per technical slot, 5 per human slot.
RawPoints(slots) ==
  4 * Cardinality(slots \cap Range(technicalSlots))
  + 5 * Cardinality(slots \cap Range(humanSlots))

BonusTotal ==
  GradeBonus(loaded.fabAnalysis.qualityMetrics.highestGrade)
  + DepthBonus(loaded.fabAnalysis.qualityMetrics.intelligenceDepth)
  + TypeScriptBonus(loaded.tsContext)

\* n is num / den rounded to the nearest integer, halves up.
IsRounded(n, num, den) == 2 * den * n <= 2 * num + den /\ 2 * num + den < 2 * den * (n + 1)

\* C4: with zero bonuses, a type whose applicable slots are all filled scores
\* exactly 86, and with some of them filled the score is the share
\* (filled raw points / raw maximum) of 86, rounded.
C4_FullCompletionIs86 ==
  pc = "done" /\ BonusTotal = 0 =>
    LET applicable == ApplicableSet(inferredType)
        rawMax == RawPoints(applicable)
        raw    == RawPoints(applicable \cap FilledSet)
    IN  /\ rawMax > 0
        /\ applicable \subseteq FilledSet => fafData.fafScore = 86
        /\ IsRounded(fafData.fafScore, 86 * raw, rawMax)

C4_Witness ==
  /\ pc = "done" /\ BonusTotal = 0
  /\ inferredType = "cli"
  /\ ApplicableSet(inferredType) \subseteq FilledSet
  /\ Cardinality(ApplicableSet(inferredType)) = 15
  /\ fafData.fafScore = 86

\* C5: the final score is min(round(scaled slot score + bonuses), 99), an
\* integer in 0..99; 100 is never produced.
C5_ScoreWithinZeroToNinetyNine ==
  pc = "done" =>
    LET applicable == ApplicableSet(inferredType)
        rawMax == RawPoints(applicable)
        num    == 86 * RawPoints(applicable \cap FilledSet) + BonusTotal * rawMax
    IN  /\ fafData.fafScore \in 0..99
        /\ IF 2 * num + rawMax >= 2 * rawMax * 99
             THEN fafData.fafScore = 99
             ELSE IsRounded(fafData.fafScore, num, rawMax)

C5_Witness ==
  /\ pc = "done"
  /\ scoring.enhancedScore[1] >= 100 * scoring.enhancedScore[2]
  /\ fafData.fafScore = 99

\* C6: a slot is applicable iff its category is in the type's category set,
\* naSlots counts the other slots of the 20-slot inventory, and so
\* naSlots + applicable = 20 (library: 15 + 5; an unrecognized type: 20 + 0).
C6_NaPlusApplicableIsTwenty ==
  pc = "done" =>
    /\ Range(scoring.applicableSlots) = ApplicableSet(inferredType)
    /\ fafData.totalSlots = Cardinality(ApplicableSet(inferredType))
    /\ fafData.naSlots = Cardinality(Range(AllSlots) \ ApplicableSet(inferredType))
    /\ Len(technicalSlots) = 14 /\ Len(humanSlots) = 6
    /\ Range(technicalSlots) \cup Range(humanSlots) = Range(AllSlots)
    /\ fafData.naSlots + fafData.totalSlots = 20
    /\ fafData.naSlots >= 0
    /\ inferredType = "library" => fafData.totalSlots = 15 /\ fafData.naSlots = 5
    /\ inferredType \notin DOMAIN TYPE_APPLICABLE_CATEGORIES =>
         fafData.totalSlots = 20 /\ fafData.naSlots = 0

C6_Witness ==
  /\ pc = "done" /\ inferredType = "library"
  /\ fafData.totalSlots = 15 /\ fafData.naSlots = 5

-----------------------------------------------------------------------------
(* Claims about type inference *)

IsTypeKey(key) == key \in DOMAIN TYPE_APPLICABLE_CATEGORIES

\* The type the five priorities give, reading "exists in the type table" as
\* being one of the table's keys.
FirstApplicableType(hint, fwResult, language, originalType) ==
  IF hint # None /\ hint \in DOMAIN AI_TYPE_TO_FAF_TYPE
     /\ IsTypeKey(AI_TYPE_TO_FAF_TYPE[hint])
    THEN AI_TYPE_TO_FAF_TYPE[hint]
  ELSE IF hint # None /\ IsTypeKey(hint) THEN hint
  ELSE IF fwResult # Null /\ IsTypeKey(NormalizeFramework(fwResult.framework))
    THEN NormalizeFramework(fwResult.framework)
  ELSE IF language \in { "C", "C++", "Rust", "Go", "Zig" } THEN "library"
  ELSE IF originalType # None /\ IsTypeKey(originalType) THEN originalType
  ELSE "fullstack"

\* C7: the inferred type is the first applicable of the AI hint (aliased or
\* direct), the normalized framework name, 'library' for a systems language,
\* the original type, and 'fullstack'.
C7_TypeIsFirstApplicable ==
  pc = "score" =>
    inferredType = FirstApplicableType(contextSlotsFilled["_ai_project_type"],
                                       frameworkResult, scanResult.primaryLanguage,
                                       options.projectType)

-----------------------------------------------------------------------------
(* Claims about the AI enrichment *)

\* C8: a call to the analyzer returns within the ceiling, whatever the remote
\* service does: no request is still outstanding after it.
C8_AiCallReturnsWithinCeiling ==
  AiWaiting => aiClock <= AI_TOTAL_TIMEOUT_SECONDS

\* C9: a failed enrichment is an absent one (null); no error of it reaches the
\* generator, which goes on with local sources and produces a score.
C9_AiFailureIsAbsence ==
  aiOutcome \in FailureOutcomes =>
    /\ aiRet = Null /\ aiResult = Null
    /\ contextSlotsFilled["_ai_project_type"] = None
    /\ thrown = None /\ pc # "threw"
    /\ pc = "done" \/ ENABLED Next
    /\ pc = "done" => fafData.fafScore \in 0..99 /\ fafData.projectType = inferredType

C9_Witness ==
  /\ pc = "done"
  /\ aiOutcome = "http_error"
  /\ scanResult.readme.exists
  /\ contextSlotsFilled["who"] = "readme: researchers"
  /\ fafData.fafScore > 0

-----------------------------------------------------------------------------
(* Claims about the project root *)

\* C10: a root that is missing, invalid, or not a readable directory fails the
\* generation before anything is scanned, and nothing else makes it fail.
C10_BadRootFailsBeforeScanning ==
  /\ ~IsReadableDirectory(options.projectRoot) => pc \in { "validate", "threw" }
  /\ thrown # None => thrown = InvalidProjectRootError

-----------------------------------------------------------------------------
(* Claims about the language scan *)

\* Whether a file name ends in an entry of the exclusion set.
EndsInSkipEntry(name) ==
  \E k \in DOMAIN name : Str(SubSeq(name, k, Len(name))) \in SKIP_EXTENSIONS

\* C13: a file whose name ends in an entry of the exclusion set (.map, .lock,
\* .min.js, .min.css, ...) is never counted by the callback.
C13_ExcludedNamesNeverCounted ==
  \A i \in counted : ~EndsInSkipEntry(walkedFiles[i].name)

\* The lower-cased extension of the i-th file of the walk.
ExtOf(i) == Str(ToLowerCase(extname(walkedFiles[i].name)))

\* The files of the walk that have a language, and the languages that are
\* reported.
WithLanguage == { i \in DOMAIN walkedFiles : Classify(walkedFiles[i].name) # None }

ReportedLanguages ==
  { Classify(walkedFiles[i].name) : i \in WithLanguage } \ EXCLUDE_FROM_PERCENTAGES

RECURSIVE SizeOfFiles(_)
SizeOfFiles(files) ==
  IF files = {} THEN 0
  ELSE LET i == CHOOSE j \in files : TRUE
       IN  walkedFiles[i].size + SizeOfFiles(files \ { i })

BytesOf(language) ==
  SizeOfFiles({ i \in WithLanguage : Classify(walkedFiles[i].name) = language })

FirstSeen(language) ==
  CHOOSE i \in WithLanguage :
    /\ Classify(walkedFiles[i].name) = language
    /\ \A j \in WithLanguage : Classify(walkedFiles[j].name) = language => i <= j

RECURSIVE SumNumerators(_)
SumNumerators(languages) ==
  IF languages = <<>> THEN 0
  ELSE Head(languages).percentage[1] + SumNumerators(Tail(languages))

\* C14: when the scan has a file of a reported language the percentages sum
\* to 100, zero-byte files included; otherwise the list is empty.
C14_PercentagesSumToHundred ==
  langPc = "done" =>
    IF ReportedLanguages # {}
      THEN \E den \in 1..(MaxFiles * 100) :
             /\ \A i \in DOMAIN languageScan.languages :
                  languageScan.languages[i].percentage[2] = den
             /\ SumNumerators(languageScan.languages) = 100 * den
      ELSE languageScan.languages = <<>> /\ languageScan.languageStrings = <<>>

\* C15: primaryLanguage is the reported language with the most bytes, the one
\* seen first in the walk among equals; it is never a config/markup language;
\* it is the sentinel when no reported language has a file.
C15_PrimaryIsLargestFirstSeen ==
  langPc = "done" =>
    IF ReportedLanguages = {}
      THEN languageScan.primaryLanguage = Unknown
      ELSE /\ languageScan.primaryLanguage \in ReportedLanguages
           /\ \A m \in ReportedLanguages \ { languageScan.primaryLanguage } :
                \/ BytesOf(m) < BytesOf(languageScan.primaryLanguage)
                \/ /\ BytesOf(m) = BytesOf(languageScan.primaryLanguage)
                   /\ FirstSeen(languageScan.primaryLanguage) < FirstSeen(m)

C15_Witness ==
  /\ langPc = "done"
  /\ walkedFiles = << Sized(Chars_data_json, 90), Sized(Chars_main_cpp, 20),
                      Sized(Chars_util_h, 20) >>
  /\ languageScan.primaryLanguage = "C++"
  /\ Len(languageScan.languages) = 2
  /\ languageScan.languages[2].language = "C"
  /\ languageScan.languages[2].bytes = languageScan.languages[1].bytes

RECURSIVE BytesReported(_, _)
BytesReported(languages, language) ==
  IF languages = <<>> THEN 0
  ELSE (IF Head(languages).language = language THEN Head(languages).bytes ELSE 0)
       + BytesReported(Tail(languages), language)

\* C16: when the scan has a .cpp, .cc or .cxx file, the bytes of its .h files
\* are reported under C++ and not under C; so main.cpp with util.h gives
\* primaryLanguage C++ whatever their sizes.
C16_HeadersFollowCppSources ==
  (/\ langPc = "done"
   /\ \E i \in WithLanguage : ExtOf(i) \in { ".cpp", ".cc", ".cxx" })
  => /\ BytesReported(languageScan.languages, "C") =
          SizeOfFiles({ i \in WithLanguage :
                          Classify(walkedFiles[i].name) = "C" /\ ExtOf(i) # ".h" })
     /\ BytesReported(languageScan.languages, "C++") =
          SizeOfFiles({ i \in WithLanguage :
                          Classify(walkedFiles[i].name) = "C++" \/ ExtOf(i) = ".h" })
     /\ ({ Str(walkedFiles[i].name) : i \in DOMAIN walkedFiles } = { "main.cpp", "util.h" }
           => languageScan.primaryLanguage = "C++")

-----------------------------------------------------------------------------
(* Claims about the README parse *)

\* The parse has got past the step that writes the named part of the result.
ReadmeParsed(steps) == readmePc \in steps /\ readmeResult # Null /\ readmeResult.exists

\* The trimmed lines after the title line.
LinesAfterTitle ==
  IF ~H1Match(readmeContent).found THEN <<>>
  ELSE LET rest == Split(SubSeq(readmeContent, H1Match(readmeContent).end + 1,
                                Len(readmeContent)))
       IN  [i \in DOMAIN rest |-> Trim(rest[i])]

LineKind(l) ==
  IF l = <<>> THEN "blank"
  ELSE IF IsImageLine(l) \/ IsBadgeLine(l) \/ IsLabelLine(l) THEN "skipped"
  ELSE IF l[1] = "#" THEN "heading"
  ELSE "content"

\* The paragraph the description is made of: from the first line that is
\* content, provided no heading comes before it, to the next blank line or
\* heading; skipped lines are left out.
FirstParagraph ==
  LET lines == LinesAfterTitle
      decisive == { i \in DOMAIN lines : LineKind(lines[i]) \in { "content", "heading" } }
      first == IF decisive = {} THEN 0 ELSE CHOOSE i \in decisive : \A j \in decisive : i <= j
      stops == { i \in DOMAIN lines : i > first /\ LineKind(lines[i]) \in { "blank", "heading" } }
      last == IF stops = {} THEN Len(lines) ELSE (CHOOSE i \in stops : \A j \in stops : i <= j) - 1
  IN  IF first = 0 \/ LineKind(lines[first]) = "heading" THEN <<>>
      ELSE SelectSeq(SubSeq(lines, first, last), LAMBDA l : LineKind(l) = "content")

\* C17: the description is the first paragraph after the title, made of the
\* lines that are not blank, image, badge or label lines; skipped lines before
\* it do not end it, a blank line after content or a heading does.  A title,
\* a badge line, a blank line and a paragraph give the paragraph; a document
\* that is only a title gives no description.
C17_DescriptionIsFirstParagraph ==
  ReadmeParsed({ "sections", "fields", "badges", "done" }) =>
    /\ readmeResult.description =
         IF FirstParagraph = <<>> THEN Undefined
         ELSE Defined(Substring(CleanDescription(JoinSpaces(FirstParagraph)), 0, 500))
    /\ readmeContent = JoinLines(<< <<"#", " ", "F", "o", "o">>, <<"[", "!", "[", "c", "i", "]", "(", "u", ")", "]", "(", "l", ")">>, <<>>, <<"A", " ", "s", "m", "a", "l", "l", " ", "t", "o", "o", "l", ".">> >>)
         => readmeResult.description = Defined(<<"A", " ", "s", "m", "a", "l", "l", " ", "t", "o", "o", "l", ".">>)
    /\ readmeContent = <<"#", " ", "F", "o", "o">> => ~readmeResult.description.defined

C17_Witness ==
  /\ readmePc = "done"
  /\ readmeContent = JoinLines(<< <<"#", " ", "F", "o", "o">>, <<"[", "!", "[", "c", "i", "]", "(", "u", ")", "]", "(", "l", ")">>, <<>>, <<"A", " ", "s", "m", "a", "l", "l", " ", "t", "o", "o", "l", ".">> >>)
  /\ readmeResult.description = Defined(<<"A", " ", "s", "m", "a", "l", "l", " ", "t", "o", "o", "l", ".">>)

\* The second-level heading lines of the document, by the index of their
\* first character, in order.
HeadingLineStarts ==
  { i \in DOMAIN readmeContent :
      /\ i = 1 \/ readmeContent[i - 1] = "\n"
      /\ At(readmeContent, i, "## ") \/ At(readmeContent, i, "##\t")
      /\ Trim(SubSeq(readmeContent, i + 2, LineEnd(readmeContent, i))) # <<>> }

RECURSIVE Ascending(_)
Ascending(set) ==
  IF set = {} THEN <<>>
  ELSE LET least == CHOOSE i \in set : \A j \in set : i <= j
       IN  << least >> \o Ascending(set \ { least })

\* The body of the heading line that starts at index i: the text from the end
\* of that line to the start of the next heading line or the end of the
\* document, trimmed and cut to 1000 characters.
BodyOfHeading(i) ==
  LET later == { j \in HeadingLineStarts : j > i }
      stop == IF later = {} THEN Len(readmeContent) + 1
              ELSE CHOOSE j \in later : \A k \in later : j <= k
  IN  Substring(Trim(SubSeq(readmeContent, LineEnd(readmeContent, i) + 1, stop - 1)), 0, 1000)

RECURSIVE SectionsOfHeadings(_, _)
SectionsOfHeadings(starts, map) ==
  IF starts = <<>> THEN map
  ELSE SectionsOfHeadings(Tail(starts),
         SetKey(map,
                ToLowerCase(Trim(SubSeq(readmeContent, Head(starts) + 2,
                                        LineEnd(readmeContent, Head(starts))))),
                BodyOfHeading(Head(starts))))

SectionsByHeadingLines == SectionsOfHeadings(Ascending(HeadingLineStarts), <<>>)

\* C18: every second-level heading defines a section keyed by its lower-cased
\* text, whose body is the text between the end of its line and the start of
\* the next second-level heading line, trimmed and cut to 1000 characters; no
\* character of the next heading line is part of it.
C18_SectionBodyEndsAtNextHeading ==
  ReadmeParsed({ "fields", "badges", "done" }) =>
    readmeResult.sections = SectionsByHeadingLines

\* The value of a field by its sections and fallbacks.
FieldOf(field) ==
  LET sections == SectionsByHeadingLines
      hits == { i \in DOMAIN sections : KeyMatches(field, sections[i].key) }
  IN  IF hits # {}
        THEN Defined(cleanSectionContent(
               sections[CHOOSE i \in hits : \A j \in hits : i <= j].body))
      ELSE IF field = "who" THEN ForPhrase(readmeContent)
      ELSE IF field = "what" /\ readmeResult.description.defined
                             /\ readmeResult.description.text # <<>>
        THEN readmeResult.description
      ELSE Undefined

\* C19: each of the six fields is the cleaned body of the first section whose
\* key matches the field; without such a section who is the phrase after
\* "built/designed/made/created for|by", what is the description, and any
\* other field is absent.
C19_FieldsFromFirstMatchingSection ==
  ReadmeParsed({ "badges", "done" }) =>
    /\ readmeResult.who = FieldOf("who")
    /\ readmeResult.what = FieldOf("what")
    /\ readmeResult.why = FieldOf("why")
    /\ readmeResult.where = FieldOf("where")
    /\ readmeResult.when = FieldOf("when")
    /\ readmeResult.how = FieldOf("how")

-----------------------------------------------------------------------------
(* Claims about the quality score *)

Points(detected, points) == IF detected THEN points ELSE 0

\* The weighted sum of the quality score, from what the sub-scans detected.
WeightedSum ==
  LET readme == subScans.readmeResult
      languages == Len(subScans.languageResult.languages)
      files == subScans.languageResult.totalFiles
      fields == { field \in { "who", "what", "why", "where", "when", "how" } :
                    readme[field].defined /\ Len(readme[field].text) > 0 }
  IN  Points(readme.exists, 15)
        + Points(readme.description.defined /\ Len(readme.description.text) > 0, 15)
        + Points(Len(readme.sections) >= 3, 10)
        + Points(subScans.licenseResult.hasLicense, 10)
        + Points(subScans.hasTests, 10)
        + Points(subScans.cicdResult.hasCiCd, 10)
        + Points(subScans.hasDocker, 5)
        + Points(languages = 2, 5) + Points(languages >= 3, 10)
        + (CASE files >= 50 -> 10
             [] files >= 20 /\ files < 50 -> 7
             [] files >= 5 /\ files < 20 -> 3
             [] OTHER -> 0)
        + Points(Cardinality(fields) >= 3, 5)

NothingDetected ==
  /\ ~subScans.readmeResult.exists
  /\ ~subScans.licenseResult.hasLicense /\ ~subScans.hasTests
  /\ ~subScans.cicdResult.hasCiCd /\ ~subScans.hasDocker
  /\ subScans.languageResult.languages = <<>>
  /\ subScans.languageResult.totalFiles = 0

\* C20: the quality score is the weighted sum of the detected factors (README
\* 15, description 15, three or more sections 10, license 10, tests 10, CI/CD
\* 10, Docker 5, two languages 5 or three and more 10, the highest file-count
\* tier reached 3/7/10, three or more README fields 5) capped at 100; it is an
\* integer in 0..100, and it is 0 with the White tier when nothing is detected.
C20_QualityScoreIsWeightedSum ==
  /\ qualityPc \in { "tier", "done" } =>
       /\ qualityScore = (IF WeightedSum > 100 THEN 100 ELSE WeightedSum)
       /\ qualityScore \in 0..100
       /\ NothingDetected => qualityScore = 0
  /\ qualityPc = "done" /\ NothingDetected => qualityTier = "White"

\* The score of a project with everything detected, two languages and 50 files.
C20_Witness ==
  /\ qualityPc = "done"
  /\ subScans.languageResult.totalFiles = 50
  /\ Len(subScans.languageResult.languages) = 2
  /\ qualityScore = 95 /\ qualityTier = "Silver"

-----------------------------------------------------------------------------
(* Claims about the slot-based percentage *)

\* C21: slotBasedPercentage is round(100 * filled applicable slots / applicable
\* slots), an integer in 0..100 that is 100 exactly when every applicable slot
\* is filled; it is a function of the filled and the applicable slots alone,
\* not of the scale factor or of a bonus.
C21_PercentageIsFilledOverApplicable ==
  pc = "done" =>
    LET applicable == ApplicableSet(inferredType)
        filledApplicable == Cardinality(applicable \cap FilledSet)
        totalApplicable == Cardinality(applicable)
    IN  /\ totalApplicable > 0
        /\ fafData.slotBasedPercentage \in 0..100
        /\ IsRounded(fafData.slotBasedPercentage, 100 * filledApplicable, totalApplicable)
        /\ fafData.slotBasedPercentage = 100 <=> applicable \subseteq FilledSet

\* A command-line tool with 6 of its 15 applicable slots filled, filled slots
\* that are not applicable, and bonuses.
C21_Witness ==
  /\ pc = "done" /\ inferredType = "cli"
  /\ contextSlotsFilled["database"] # None
  /\ Cardinality(ApplicableSet(inferredType) \cap FilledSet) = 6
  /\ BonusTotal > 0
  /\ fafData.slotBasedPercentage = 40

(* Claims about the join of the concurrent sub-scans *)

\* The state each concurrent sub-scan writes.
SubScanState(task) ==
  IF task = "languages" THEN langVars
  ELSE IF task = "readme" THEN readmeVars
  ELSE probeResults[task]

\* The result a concurrent sub-scan resolved with.
SubScanResult(task) ==
  IF task = "languages" THEN languageScan
  ELSE IF task = "readme" THEN readmeResult
  ELSE probeResults[task]

\* Past the await of Promise.all every concurrent sub-scan has resolved and
\* the bound results are the ones they resolved with; once the quality
\* scoring has started, detectTests and detectDocker have resolved too.
ScoringAfterSubScans ==
  /\ scanPc \in { "tests", "docker", "quality", "done" } =>
       /\ \A task \in ConcurrentSubScans : Resolved(task)
       /\ subScans.languageResult = languageScan /\ languageScan # Null
       /\ subScans.readmeResult = readmeResult /\ readmeResult # Null
       /\ subScans.licenseResult = detectLicense(projectTree)
       /\ subScans.structureResult = probeResults["structure"]
       /\ subScans.cicdResult = detectCiCd(projectTree)
  /\ qualityPc # "idle" =>
       /\ scanPc \in { "quality", "done" }
       /\ subScans.hasTests = detectTests(projectTree)
       /\ subScans.hasDocker = detectDocker(projectTree)

\* Once the sub-scans are started, a step writes the state of at most one of
\* them; none is written once the quality scoring has started, and a result
\* already resolved never changes.
SubScansIsolated ==
  /\ \A t1, t2 \in ConcurrentSubScans :
       (scanPc # "call" /\ SubScanState(t1)' # SubScanState(t1)
                       /\ SubScanState(t2)' # SubScanState(t2)) => t1 = t2
  /\ \A task \in ConcurrentSubScans :
       /\ Resolved(task) => SubScanResult(task)' = SubScanResult(task)
       /\ qualityPc # "idle" => SubScanState(task)' = SubScanState(task)
  /\ scanPc \in { "docker", "quality", "done" } => subScans'.hasTests = subScans.hasTests
  /\ scanPc \in { "quality", "done" } => subScans'.hasDocker = subScans.hasDocker

\* C22: in every interleaving the quality scoring starts only after the
\* language walk, the README parse, the license, top-level structure and CI/CD
\* detection, the test detection and the Docker detection have completed, and
\* no sub-scan writes the state of another or changes a resolved result.
C22_QualityScoringAfterAllSubScans == [][ScoringAfterSubScans' /\ SubScansIsolated]_vars

\* The README parse finished first and the language walk last, and the
\* quality scoring of the documented project has run.
C22_Witness ==
  /\ projectTree = FullTree
  /\ Len(settled) = 5 /\ settled[1] = "readme" /\ settled[5] = "languages"
  /\ qualityPc = "done" /\ qualityScore > 0
  /\ subScans.hasTests = TRUE /\ subScans.licenseResult.licenseName = "MIT"

(* Claims about the determinism of a scan *)

\* The language map after the callback has run on the files in order.
RECURSIVE LanguageBytesFrom(_, _)
LanguageBytesFrom(map, files) ==
  IF files = <<>> THEN map
  ELSE LanguageBytesFrom(
         IF Classify(Head(files).name) = None THEN map
         ELSE AddToLanguage(map, Classify(Head(files).name), Head(files).size),
         Tail(files))

\* The languages of a scan whose walk met the files in this order, ranked.
RankedLanguages(files) ==
  LET ranked == SortByBytesDesc(NotExcluded(LanguageBytesFrom(<<>>, files)))
  IN  [i \in DOMAIN ranked |-> ranked[i].language]

\* What a scan of the same tree reports when readdir lists its entries in
\* another order: the ranked languages, the primary language and the
\* top-level structure.
OrderSensitivePart(dirEntries) ==
  [languages |-> RankedLanguages(FilesOf(dirEntries)),
   primaryLanguage |-> IF RankedLanguages(FilesOf(dirEntries)) = <<>> THEN Unknown
                       ELSE RankedLanguages(FilesOf(dirEntries))[1],
   topLevelStructure |-> scanTopLevelStructure(dirEntries)]

\* C23: the result of a scan is the same whatever the order in which the
\* concurrent sub-scans complete and whatever the order in which the entries
\* of the directory are enumerated: the ranked languages, the primary
\* language and the top-level structure it reports are those of a scan of the
\* same tree under every other enumeration order.
C23_ScanResultIndependentOfOrder ==
  scanPc = "done" =>
    \A other \in Enumerations(projectTree.entries) :
      OrderSensitivePart(other) =
        [languages |-> [i \in DOMAIN localScanResult.languages |->
                          localScanResult.languages[i].language],
         primaryLanguage |-> localScanResult.primaryLanguage,
         topLevelStructure |-> localScanResult.topLevelStructure]

(* Claims about the systems-language rule *)

\* The framework detector reported a framework other than 'Unknown'.
FrameworkSignal ==
  /\ frameworkResult # Null
  /\ frameworkResult.framework # <<>>
  /\ Str(frameworkResult.framework) # "Unknown"

\* C24: the systems-language rule classifies a project as 'library' only when
\* its primary language is C, C++, Rust, Go or Zig and the framework detector
\* reported no framework: with a framework reported, even one that is not a
\* key of the type table, the rule does not make the project a 'library'.
C24_LibraryOnlyWithoutFrameworkSignal ==
  (/\ pc = "score"
   /\ inferredType = "library"
   /\ contextSlotsFilled["_ai_project_type"] = None
   /\ options.projectType # "library")
    => /\ scanResult.primaryLanguage \in SystemsLanguages
       /\ ~FrameworkSignal \/ NormalizeFramework(frameworkResult.framework) = "library"

(* Claims about slots outside the applicable inventory *)

\* Lines 713-899 on the slots with one key set to a value: the type inferred
\* and the fields of fafData scored for it.
ScoredWith(key, value) ==
  LET slots == [contextSlotsFilled EXCEPT ![key] = value]
      type == inferProjectType(scanResult, slots["_ai_project_type"], frameworkResult,
                               options.projectType)
      score == TypeAwareScoring(type, slots, loaded.fabAnalysis.qualityMetrics,
                                loaded.tsContext)
  IN  [applicableSlots |-> score.applicableSlots,
       filledSlots |-> score.totalFilled,
       fafData |-> FafData(type, score)]

\* The keys the claim is about: slots not applicable to the inferred type and
\* keys outside the slot inventory.
OutsideApplicable(type) == SlotKeys \ ApplicableSet(type)

\* C25: filling, changing or clearing a slot that is not applicable to the
\* inferred type, or a key outside the inventory (license, runtime,
\* css_framework, _ai_project_type), leaves the applicable slots, the filled
\* count, naSlots, slotBasedPercentage and the final score as they are.
C25_NonApplicableSlotsLeaveScoreUnchanged ==
  pc = "done" =>
    \A key \in OutsideApplicable(inferredType) : \A value \in { None, "cli" } :
      ScoredWith(key, value) =
        [applicableSlots |-> scoring.applicableSlots,
         filledSlots |-> scoring.totalFilled,
         fafData |-> fafData]

(* Claims about the OpenRouter fallback *)

\* The requests made so far are the first models of the list, in list order.
RequestsInListOrder ==
  /\ Len(aiRequests) <= Len(OPENROUTER_FREE_MODELS)
  /\ \A i \in DOMAIN aiRequests :
       aiRequests[i] = [provider |-> "openrouter", model |-> OPENROUTER_FREE_MODELS[i]]

\* What holds of the requests in every state of a call.
FallbackState ==
  /\ aiEnv.ANTHROPIC_API_KEY =>
       \A i \in DOMAIN aiRequests : aiRequests[i].provider # "openrouter"
  /\ (~aiEnv.ANTHROPIC_API_KEY /\ ~aiEnv.OPENROUTER_API_KEY) =>
       aiRequests = <<>> /\ (aiPc = "returned" => aiRet = Null)
  /\ (~aiEnv.ANTHROPIC_API_KEY /\ aiEnv.OPENROUTER_API_KEY) =>
       /\ RequestsInListOrder
       /\ aiPc = "openrouter_wait" => aiModel = Len(aiRequests) /\ aiRet = Null
       /\ (aiPc = "returned" /\ aiRet = Null) =>
            /\ Len(aiRequests) = Len(OPENROUTER_FREE_MODELS)
            /\ aiOutcome \in FailureOutcomes
       /\ (aiPc = "returned" /\ aiRet # Null) =>
            aiRet.source = "openrouter" /\ aiOutcome = "json"

\* A request to the next model is made only by a step in which the model
\* asked before it has answered without a result, and none once the call
\* has returned.
FallbackStep ==
  /\ aiRequests' # aiRequests =>
       /\ aiRequests' = Append(aiRequests, aiRequests'[Len(aiRequests) + 1])
       /\ aiPc' # "returned" /\ aiRet' = Null
       /\ aiPc \in { "called", "openrouter_wait" }
  /\ aiPc = "returned" => aiRequests' = aiRequests /\ aiRet' = aiRet

\* C26: the OpenRouter fallback tries the models strictly in list order, each
\* at most once, a later one only after every earlier one failed; the first
\* response that parses is returned and no further request is made; after the
\* last model fails the result is null; with an Anthropic key OpenRouter is
\* never called, and with no key no request is made.
C26_OpenRouterFallbackInListOrder == [][FallbackState' /\ FallbackStep]_vars

\* The third model's answer parsed after the first two failed.
C26_Witness ==
  /\ aiPc = "returned" /\ aiRet # Null /\ aiRet.source = "openrouter"
  /\ Len(aiRequests) = 3
  /\ aiRequests[3].model = "meta-llama/llama-3.3-70b-instruct:free"

(* Claims about the priority of the human-context sources *)

HumanSlotKeys == { "who", "what", "why", "where", "when", "how" }

\* The FAB-FORMATS field that feeds a human-context slot.
FabFieldOf(slot) ==
  [who |-> "targetUser", what |-> "coreProblem", why |-> "missionPurpose",
   where |-> "deploymentMarket", when |-> "timeline", how |-> "approach"][slot]

\* What the four sources supply for a slot, in priority order: the AI
\* enrichment, the local README parse, FAB-FORMATS, RELENTLESS.
HumanSources(slot) ==
  << IF aiResult # Null THEN aiResult[slot] ELSE None,
     IF scanResult.readme.exists THEN scanResult.readme[slot] ELSE None,
     loaded.fabAnalysis.context[FabFieldOf(slot)],
     IF loaded.humanContext # Null THEN loaded.humanContext[slot] ELSE None >>

RECURSIVE FirstNonEmpty(_)
FirstNonEmpty(values) ==
  IF values = <<>> THEN None
  ELSE IF Head(values) # None THEN Head(values)
  ELSE FirstNonEmpty(Tail(values))

AfterHumanFills == pc \in { "rust_cli", "node_cli", "bun", "manifests", "infer", "score", "done" }

\* After the four fills a slot some source supplied holds the value of the
\* first source that supplied one.
FirstSourceWins ==
  AfterHumanFills =>
    \A slot \in HumanSlotKeys :
      FirstNonEmpty(HumanSources(slot)) # None =>
        contextSlotsFilled[slot] = FirstNonEmpty(HumanSources(slot))

\* No step replaces the value a human-context slot holds.
HumanSlotKept ==
  \A slot \in HumanSlotKeys :
    contextSlotsFilled[slot] # None => contextSlotsFilled'[slot] = contextSlotsFilled[slot]

\* C27: every human-context slot ends with the value of the first of the AI
\* enrichment, the local README parse, FAB-FORMATS and RELENTLESS that supplies
\* a non-empty value, and a later source never replaces an earlier one's value.
C27_HumanContextFirstSourceWins == [][FirstSourceWins' /\ HumanSlotKept]_vars

\* The AI gave 'who' only, the README the rest, and FAB-FORMATS and
\* RELENTLESS had values for all six.
C27_Witness ==
  /\ pc = "done"
  /\ aiResult # Null /\ aiResult.who = "ai: analysts" /\ aiResult.what = None
  /\ contextSlotsFilled["who"] = "ai: analysts"
  /\ contextSlotsFilled["what"] = "readme: transcription"
  /\ loaded.fabAnalysis.context.coreProblem = "fab: routing"
  /\ loaded.humanContext # Null /\ loaded.humanContext.what = "relentless: context"

(* Claims about placeholder values *)

\* C28: the framework detector's 'Unknown' is a sentinel for no framework:
\* the framework slot never holds it, stays unfilled and adds nothing to the
\* filled count.
C28_UnknownNeverFillsFramework ==
  /\ contextSlotsFilled["framework"] # "Unknown"
  /\ (pc = "done" /\ frameworkResult # Null /\ Str(frameworkResult.framework) = "Unknown"
       /\ options.framework = None /\ loaded.fabAnalysis.context.framework = None
       /\ ~loaded.cargo.isRustCLI /\ ~IsNodeCLI(loaded.packageData))
      => "framework" \notin FilledSet

NotApplicablePlaceholder == "N/A (CLI)"

\* C29: the placeholder 'N/A (CLI)' marks a slot as not applicable: whatever
\* the inferred type, also one whose categories include the backend, no
\* applicable slot counted as filled holds it.
C29_PlaceholderNeverCountedAsFilled ==
  pc = "done" =>
    \A slot \in ApplicableSet(inferredType) \cap FilledSet :
      contextSlotsFilled[slot] # NotApplicablePlaceholder

(* Claims about the formatter's reconstruction of the filled count *)

\* C30: for every number t of applicable slots from 1 to 20 and every number
\* f of filled slots from 0 to t, the count the formatter reconstructs from
\* the percentage, round((round(100 * f / t) / 100) * t), is f.
C30_ReconstructedFilledCount ==
  (yamlPc = "done" /\ slotTotals.totalApplicable \in 1..20) =>
    /\ contextQuality.filled = slotTotals.totalFilled
    /\ contextQuality.total = slotTotals.totalApplicable
    /\ IsRounded(contextQuality.percentage, 100 * slotTotals.totalFilled,
                 slotTotals.totalApplicable)

\* Three of seven: the percentage 43 is not exact, and the count comes back.
C30_Witness ==
  /\ yamlPc = "done"
  /\ slotTotals = [totalFilled |-> 3, totalApplicable |-> 7]
  /\ contextQuality.percentage = 43
  /\ contextQuality.filled = 3

=============================================================================
